---- MODULE Spec2Model ----
(***************************************************************************)
(* MARIS: the simulation loop (maris/sim/runner.py), the validation        *)
(* helpers (maris/core/validation.py) and the rate PID autopilot           *)
(* (maris/control/pid.py).                                                 *)
(*                                                                         *)
(* Numbers.  Floats are modelled by integers plus the sentinel NaN for a   *)
(* non-finite value.  Time is counted in units of 0.5 ns, so the runner's  *)
(* absolute tolerances are exact rationals of the unit:                    *)
(*     1e-9  s = MinAdvanceAbs units        (min_advance, absolute part)   *)
(*     1e-12 s = 1/LoopTolDen unit          (while t < t_end + 1e-12)      *)
(*     1e-15 s = 1/ZeroSegDen unit          (t_next <= t + 1e-15)          *)
(* and 1e-6 = 1/MinAdvanceRelDen.  Commands are counted in a unit for      *)
(* which rate * dt is an integer.                                          *)
(***************************************************************************)
EXTENDS Integers, Sequences, FiniteSets, TLC

---------------------------------------------------------------------------
(* Bounds of the model *)
MaxT0 == 2
MaxTEnd == 4
MaxDt == 3
MaxEvals == 1
MaxDecimation == 2
MaxPidT == 2
MaxUpdates == 4

(* Program constants, in the units above *)
JumpThreshold == 1000000
MinAdvanceAbs == 2
MinAdvanceRelDen == 1000000
LoopTolDen == 500
ZeroSegDen == 500000
PidMinDt == 1
Pi == 2

---------------------------------------------------------------------------
(* Float helpers: math.isfinite, arithmetic and comparisons with NaN,      *)
(* Python's builtin min/max (which keep the first argument unless the      *)
(* second compares strictly smaller/greater).                              *)
NaN == 999999999
None == "None"

isfinite(v) == v # NaN
Add(a, b) == IF a = NaN \/ b = NaN THEN NaN ELSE a + b
Mul(a, b) == IF a = NaN \/ b = NaN THEN NaN ELSE a * b
Lt(a, b) == a # NaN /\ b # NaN /\ a < b
Gt(a, b) == Lt(b, a)
Le(a, b) == a # NaN /\ b # NaN /\ a <= b
Ge(a, b) == Le(b, a)
PyMin(a, b) == IF Lt(b, a) THEN b ELSE a
PyMax(a, b) == IF Gt(b, a) THEN b ELSE a
Abs(a) == IF a < 0 THEN -a ELSE a

---------------------------------------------------------------------------
(* maris/core/validation.py *)

(* validate_params accepting equal lower and upper limits *)
validate_params_AcceptsEqualLimits(params) ==
  IF ~isfinite(params.m) \/ Le(params.m, 0) THEN "ConfigError"
  ELSE IF ~isfinite(params.Iz) \/ Le(params.Iz, 0) THEN "ConfigError"
  ELSE IF Gt(params.rpm_min, params.rpm_max) THEN "ConfigError"
  ELSE IF Gt(params.rudder_min, params.rudder_max) THEN "ConfigError"
  ELSE "ok"

validate_params(params) ==
  IF ~isfinite(params.m) \/ Le(params.m, 0) THEN "ConfigError"
  ELSE IF ~isfinite(params.Iz) \/ Le(params.Iz, 0) THEN "ConfigError"
  ELSE IF Ge(params.rpm_min, params.rpm_max) THEN "ConfigError"
  ELSE IF Ge(params.rudder_min, params.rudder_max) THEN "ConfigError"
  ELSE "ok"

validate_config(cfg) ==
  IF ~isfinite(cfg.dt) \/ Le(cfg.dt, 0) THEN "ConfigError"
  ELSE IF ~isfinite(cfg.t_end) \/ Le(cfg.t_end, 0) THEN "ConfigError"
  ELSE IF ~isfinite(cfg.t0) THEN "ConfigError"
  ELSE IF cfg.output_decimation <= 0 \/ cfg.stream_decimation <= 0 THEN "ConfigError"
  ELSE "ok"

check_finite_state(st) ==
  IF \E f \in {"t", "x", "y", "psi", "u", "v", "r"} : ~isfinite(st[f])
  THEN "NumericalInstability" ELSE "ok"

validate_initial_state(st, params) == check_finite_state(st)

(* check_bounds_control without the upper RPM limit *)
check_bounds_control_NoUpperRpm(control, params) ==
  IF ~isfinite(control.rpm) THEN "NumericalInstability"
  ELSE IF ~isfinite(control.rudder_angle) THEN "NumericalInstability"
  ELSE IF Lt(control.rpm, params.rpm_min) THEN "NumericalInstability"
  ELSE IF Lt(control.rudder_angle, params.rudder_min)
          \/ Gt(control.rudder_angle, params.rudder_max)
       THEN "NumericalInstability"
  ELSE "ok"

check_bounds_control(control, params) ==
  IF ~isfinite(control.rpm) THEN "NumericalInstability"
  ELSE IF ~isfinite(control.rudder_angle) THEN "NumericalInstability"
  ELSE IF Lt(control.rpm, params.rpm_min) \/ Gt(control.rpm, params.rpm_max)
       THEN "NumericalInstability"
  ELSE IF Lt(control.rudder_angle, params.rudder_min)
          \/ Gt(control.rudder_angle, params.rudder_max)
       THEN "NumericalInstability"
  ELSE "ok"

detect_numerical_issue(state_before, state_after) ==
  IF check_finite_state(state_after) # "ok" THEN "NumericalInstability"
  ELSE IF Abs(state_after.x - state_before.x) > JumpThreshold
          \/ Abs(state_after.y - state_before.y) > JumpThreshold
       THEN "NumericalInstability"
  ELSE "ok"

(* apply_termination_bounds testing the y bounds before the x bounds *)
apply_termination_bounds_YFirst(st, cfg) ==
  LET bounds == cfg.termination_bounds IN
  IF "y_min" \in DOMAIN bounds /\ st.y < bounds["y_min"] THEN "y below bound"
  ELSE IF "y_max" \in DOMAIN bounds /\ st.y > bounds["y_max"] THEN "y above bound"
  ELSE IF "x_min" \in DOMAIN bounds /\ st.x < bounds["x_min"] THEN "x below bound"
  ELSE IF "x_max" \in DOMAIN bounds /\ st.x > bounds["x_max"] THEN "x above bound"
  ELSE None

apply_termination_bounds(st, cfg) ==
  LET bounds == cfg.termination_bounds IN
  IF "x_min" \in DOMAIN bounds /\ st.x < bounds["x_min"] THEN "x below bound"
  ELSE IF "x_max" \in DOMAIN bounds /\ st.x > bounds["x_max"] THEN "x above bound"
  ELSE IF "y_min" \in DOMAIN bounds /\ st.y < bounds["y_min"] THEN "y below bound"
  ELSE IF "y_max" \in DOMAIN bounds /\ st.y > bounds["y_max"] THEN "y above bound"
  ELSE None

---------------------------------------------------------------------------
(* maris/models/mmg3dof/model.py: vector mapping and the entry points the  *)
(* runner calls.  The force values are not needed by the loop's control    *)
(* flow; what is recorded is the control each force aggregation consumed.  *)

unpack_state_vector(vec) ==
  [t |-> 0, x |-> vec[1], y |-> vec[2], psi |-> vec[3],
   u |-> vec[4], v |-> vec[5], r |-> vec[6]]

get_initial_state_vector(st) == <<st.x, st.y, st.psi, st.u, st.v, st.r>>

sum_forces(control) == {control}

model_forces(control, params) ==
  IF check_bounds_control(control, params) # "ok"
  THEN [exc |-> "NumericalInstability", consumed |-> {}]
  ELSE [exc |-> None, consumed |-> sum_forces(control)]

model_f(control) == [exc |-> None, consumed |-> sum_forces(control)]

---------------------------------------------------------------------------
(* maris/sim/runner.py: SimulationRunner.run as a state machine.           *)

VARIABLES
  config,            \* SimulationConfig (argument of run)
  vessel_params,     \* VesselParams (argument of run)
  initial_state,     \* VesselState (argument of run)
  provider_current,  \* what control_provider.current() does: raise, or return value
  writer,            \* TRUE iff a TickWriter is attached
  summary_writer,    \* TRUE iff a SummaryWriter is attached
  pc,                \* position of run in its code
  t, k, y,           \* loop time, tick counter, state vector
  term_reason,
  rpm_cmd, rudder_cmd,
  state, up, control, env, t_next, fun, y_out,   \* locals of one iteration
  n_evals,           \* derivative evaluations made by the solver call in progress
  result,            \* the RunResult returned, or NoResult
  exc,               \* the exception run raised, or None
  written,           \* what the writers received, in order
  compute_calls,     \* arguments of control_provider.compute in this iteration
  sample_calls,      \* arguments of env_provider.sample in this iteration
  force_calls,       \* controls consumed by force aggregation in this iteration
  fun_evals,         \* <<control, env>> of each derivative evaluation of the solver call in progress
  hist,              \* the provider's commands so far: how many, and whether all equal
  stall              \* the step, if any, in which solve_ivp succeeded without advancing min_advance

runner_vars ==
  <<config, vessel_params, initial_state, provider_current, writer, summary_writer,
    pc, t, k, y, term_reason, rpm_cmd, rudder_cmd, state, up, control, env, t_next,
    fun, y_out, n_evals, result, exc, written, compute_calls, sample_calls,
    force_calls, fun_evals, hist, stall>>

(* RatePIDAutopilot (pid.py 18-29): the two PIDConfig fields and the       *)
(* integrator states; an Optional float is <<>> for None and <<x>> for x.  *)
(* n_updates counts the update calls; obs_* records, for the last update   *)
(* of an axis, the unsaturated and the saturated output and the            *)
(* accumulator before it; sat_* the current run of saturated updates;      *)
(* last_call the heading arguments of the last update.                     *)
VARIABLES heading, speed, e_int_heading, e_int_speed, last_heading_err,
          last_speed_err, last_t, n_updates, obs_heading, obs_speed,
          sat_heading, sat_speed, last_call

pid_vars ==
  <<heading, speed, e_int_heading, e_int_speed, last_heading_err,
    last_speed_err, last_t, n_updates, obs_heading, obs_speed,
    sat_heading, sat_speed, last_call>>

(* A single call of one of the library's functions: the function called,   *)
(* its argument and what it returned or raised.                            *)
VARIABLES fn, arg, ret

fn_vars == <<fn, arg, ret>>

(* One run of the end-to-end scenario: loop position, time, tick counter,  *)
(* state vector, the tick records written and the result.                  *)
VARIABLES scenario

scenario_vars == <<scenario>>

(* Two runs executing side by side: the frame of each run (run), the cells *)
(* that hold the actuator accumulators (acc) and the autopilot objects on  *)
(* the heap (ap).                                                          *)
VARIABLES duo

duo_vars == <<duo>>

(* What the actions of each system leave alone *)
outside_runner == <<pid_vars, fn_vars, scenario_vars, duo_vars>>
outside_pid == <<runner_vars, fn_vars, scenario_vars, duo_vars>>
outside_fn == <<runner_vars, pid_vars, scenario_vars, duo_vars>>
outside_scenario == <<runner_vars, pid_vars, fn_vars, duo_vars>>
outside_duo == <<runner_vars, pid_vars, fn_vars, scenario_vars>>

ControlInput(rpm, rudder_angle, notes) ==
  [rpm |-> rpm, rudder_angle |-> rudder_angle, notes |-> notes]

VesselState(x, ypos, psi, u, v, r) ==
  [t |-> 0, x |-> x, y |-> ypos, psi |-> psi, u |-> u, v |-> v, r |-> r]

(* Inputs of a run *)
BoundNames == {{}, {"x_max"}, {"x_max", "y_max"}, {"x_min", "y_min"}}
BoundsSet == {[n \in S |-> 1] : S \in BoundNames}

ConfigSet ==
  [t0 : 0..MaxT0, t_end : 0..MaxTEnd, dt : 0..MaxDt,
   output_decimation : 0..MaxDecimation, stream_decimation : {1},
   termination_bounds : BoundsSet]

GoodParams ==
  [m |-> 1, Iz |-> 1, rpm_min |-> 0, rpm_max |-> 3, rudder_min |-> -2, rudder_max |-> 2]

ParamSet == {GoodParams, [GoodParams EXCEPT !.rpm_min = 3]}

InitialStateSet ==
  {VesselState(0, 0, 0, 0, 0, 0), VesselState(0, 0, 0, NaN, 0, 0)}

CurrentSet ==
  {[raises |-> TRUE, value |-> ControlInput(0, 0, None)],
   [raises |-> FALSE, value |-> ControlInput(1, -5, "abs")]}

(* What control_provider.compute may return: rate commands, absolute       *)
(* commands inside and outside the actuator limits, non-finite values.     *)
CommandSet ==
  {ControlInput(1, 1, "rate"), ControlInput(-1, -1, "rate"),
   ControlInput(NaN, 0, "rate"),
   ControlInput(1, 1, "abs"), ControlInput(4, 0, "abs"), ControlInput(0, -3, None),
   ControlInput(NaN, 0, "abs"), ControlInput(0, NaN, "abs")}

EnvironmentSample(w) ==
  [wind_speed |-> w, wind_dir_from |-> 0, current_speed |-> 0, current_dir_to |-> 0]

EnvSet == {EnvironmentSample(0), EnvironmentSample(1)}

NoResult == [status |-> None, reason |-> None, end_time |-> 0, ticks |-> 0]
NoControl == ControlInput(0, 0, None)
NoState == VesselState(0, 0, 0, 0, 0, 0)
NoHist == [n |-> 0, same |-> TRUE, first |-> NoControl]
NoStall == [seen |-> FALSE, t |-> 0, k |-> 0]

RunnerInit ==
  /\ config \in ConfigSet
  /\ vessel_params \in ParamSet
  /\ initial_state \in InitialStateSet
  /\ provider_current \in CurrentSet
  /\ writer \in BOOLEAN
  /\ summary_writer \in BOOLEAN
  /\ pc = "start"
  /\ t = 0 /\ k = 0 /\ y = get_initial_state_vector(NoState)
  /\ term_reason = None
  /\ rpm_cmd = 0 /\ rudder_cmd = 0
  /\ state = NoState /\ up = NoControl /\ control = NoControl
  /\ env = EnvironmentSample(0) /\ t_next = 0
  /\ fun = [control_k |-> NoControl, env_k |-> EnvironmentSample(0)]
  /\ y_out = get_initial_state_vector(NoState)
  /\ n_evals = 0
  /\ result = NoResult
  /\ exc = None
  /\ written = <<>>
  /\ compute_calls = <<>> /\ sample_calls = <<>>
  /\ force_calls = {} /\ fun_evals = {}
  /\ hist = NoHist
  /\ stall = NoStall

(* The accumulators' initial values: control_provider.current(), or 0.0   *)
(* when it raises (runner.py 227-234).                                     *)
Current0 ==
  IF provider_current.raises THEN ControlInput(0, 0, None) ELSE provider_current.value

(* a stagnation test that never fires *)
BelowMinAdvance_Never(d, dt) == FALSE

(* d < min_advance, with min_advance = max(1e-9, 1e-6 * dt) (runner.py 243) *)
BelowMinAdvance(d, dt) == d < MinAdvanceAbs \/ d * MinAdvanceRelDen < dt

(* while t < config.t_end + 1e-12 (runner.py 244) *)
LoopCond(tt, t_end) == tt * LoopTolDen < t_end * LoopTolDen + 1

(* t_next <= t + 1e-15 (runner.py 288) *)
ZeroLength(tt, tn) == tn * ZeroSegDen <= tt * ZeroSegDen + 1

Raise(e) == pc' = "raised" /\ exc' = e

(* runner.py 198-243: validation and initialisation *)
Start ==
  /\ pc = "start"
  /\ IF validate_config(config) # "ok" THEN
       /\ Raise(validate_config(config))
       /\ UNCHANGED <<t, k, y, rpm_cmd, rudder_cmd>>
     ELSE IF validate_params(vessel_params) # "ok" THEN
       /\ Raise(validate_params(vessel_params))
       /\ UNCHANGED <<t, k, y, rpm_cmd, rudder_cmd>>
     ELSE IF validate_initial_state(initial_state, vessel_params) # "ok" THEN
       /\ Raise(validate_initial_state(initial_state, vessel_params))
       /\ UNCHANGED <<t, k, y, rpm_cmd, rudder_cmd>>
     ELSE
       /\ t' = config.t0
       /\ k' = 0
       /\ y' = get_initial_state_vector(initial_state)
       /\ rpm_cmd' = Current0.rpm
       /\ rudder_cmd' = Current0.rudder_angle
       /\ pc' = "loop"
       /\ exc' = None
  /\ UNCHANGED <<config, vessel_params, initial_state, provider_current, writer,
                 summary_writer, term_reason, state, up, control, env, t_next, fun,
                 y_out, n_evals, result, written, compute_calls, sample_calls,
                 force_calls, fun_evals, hist, stall>>
  /\ UNCHANGED outside_runner

(* the rate integration adding the rate itself, not the rate times dt *)
IntegrateRate_IgnoresDt(cmd, rate, dt, lo, hi) == PyMax(lo, PyMin(hi, Add(cmd, rate)))

(* the rate integration over the length of the segment about to be         *)
(* integrated, min(t + dt, t_end) - t                                      *)
IntegrateRate_OverSegment(cmd, rate, dt, lo, hi) ==
  PyMax(lo, PyMin(hi, Add(cmd, Mul(rate, PyMin(t + dt, config.t_end) - t))))

(* runner.py 251-261: clamp of an integrated rate command *)
IntegrateRate(cmd, rate, dt, lo, hi) == PyMax(lo, PyMin(hi, Add(cmd, Mul(rate, dt))))

NextHist(h, c) ==
  IF h.n = 0 THEN [n |-> 1, same |-> TRUE, first |-> c]
  ELSE IF h.same /\ h.first = c THEN [h EXCEPT !.n = h.n + 1]
  ELSE [n |-> h.n + 1, same |-> FALSE, first |-> NoControl]

(* a tag test that takes every command for a rate *)
IsRate_Always(c) == c.notes = c.notes

(* runner.py 250: the command is tagged as a rate *)
IsRate(c) == c.notes = "rate"

(* runner.py 244-267: loop test, control sampling, rate integration,       *)
(* control bounds check                                                    *)
SampleControl ==
  /\ pc = "loop"
  /\ LoopCond(t, config.t_end)
  /\ \E c \in CommandSet :
       LET st == unpack_state_vector(y)
           rate == IsRate(c)
           rpm_new == IF rate
                      THEN IntegrateRate(rpm_cmd, c.rpm, config.dt,
                                         vessel_params.rpm_min, vessel_params.rpm_max)
                      ELSE rpm_cmd
           rud_new == IF rate
                      THEN IntegrateRate(rudder_cmd, c.rudder_angle, config.dt,
                                         vessel_params.rudder_min, vessel_params.rudder_max)
                      ELSE rudder_cmd
           ctl == IF rate THEN ControlInput(rpm_new, rud_new, "abs") ELSE c
       IN /\ state' = st
          /\ up' = c
          /\ rpm_cmd' = rpm_new
          /\ rudder_cmd' = rud_new
          /\ control' = ctl
          /\ compute_calls' = <<[t |-> t, state |-> st]>>
          /\ hist' = NextHist(hist, c)
          /\ IF check_bounds_control(ctl, vessel_params) # "ok"
             THEN Raise(check_bounds_control(ctl, vessel_params))
             ELSE pc' = "env" /\ exc' = None
  /\ sample_calls' = <<>>
  /\ force_calls' = {}
  /\ fun_evals' = {}
  /\ n_evals' = 0
  /\ UNCHANGED <<config, vessel_params, initial_state, provider_current, writer,
                 summary_writer, t, k, y, term_reason, env, t_next, fun, y_out,
                 result, written, stall>>
  /\ UNCHANGED outside_runner

(* runner.py 268-289: environment sampling, diagnostic forces and          *)
(* derivatives, segment function, zero-length segment                      *)
SampleEnv ==
  /\ pc = "env"
  /\ \E e \in EnvSet :
       LET F == model_forces(control, vessel_params)
           D == model_f(control)
           tn == PyMin(t + config.dt, config.t_end)
       IN /\ env' = e
          /\ sample_calls' = <<[t |-> t, state |-> state]>>
          /\ IF F.exc # None
             THEN /\ Raise(F.exc)
                  /\ force_calls' = F.consumed
                  /\ UNCHANGED <<t_next, fun, y_out>>
             ELSE /\ force_calls' = F.consumed \cup D.consumed
                  /\ t_next' = tn
                  /\ fun' = [control_k |-> control, env_k |-> e]
                  /\ exc' = None
                  /\ IF ZeroLength(t, tn)
                     THEN pc' = "accept" /\ y_out' = y
                     ELSE pc' = "solving" /\ y_out' = y_out
  /\ UNCHANGED <<config, vessel_params, initial_state, provider_current, writer,
                 summary_writer, t, k, y, term_reason, rpm_cmd, rudder_cmd, state, up,
                 control, n_evals, result, written, compute_calls, fun_evals, hist, stall>>
  /\ UNCHANGED outside_runner

(* a segment function that samples the environment anew at each call *)
SegmentFun_Resamples(closure) ==
  [control |-> closure.control_k, env |-> EnvironmentSample(1 - closure.env_k.wind_speed)]

(* runner.py 119-135: one call of the segment function by the solver; it  *)
(* evaluates model.f with the control and environment captured when the    *)
(* function was built.                                                     *)
SegmentFun(closure) == [control |-> closure.control_k, env |-> closure.env_k]

SolverEval ==
  /\ pc = "solving"
  /\ n_evals < MaxEvals
  /\ n_evals' = n_evals + 1
  /\ LET used == SegmentFun(fun) IN
       /\ fun_evals' = fun_evals \cup {<<used.control, used.env>>}
       /\ force_calls' = force_calls \cup model_f(used.control).consumed
  /\ UNCHANGED <<config, vessel_params, initial_state, provider_current, writer,
                 summary_writer, pc, t, k, y, term_reason, rpm_cmd, rudder_cmd, state,
                 up, control, env, t_next, fun, y_out, result, exc, written,
                 compute_calls, sample_calls, hist, stall>>
  /\ UNCHANGED outside_runner

(* What solve_ivp may return for the segment (t, t_next) from y: the       *)
(* solver is an external library, so every shape the code tests for.       *)
Shift(vec, dx, dy) == [vec EXCEPT ![1] = vec[1] + dx, ![2] = vec[2] + dy]

YOutcomes(vec) ==
  {Shift(vec, 0, 0), Shift(vec, 1, 0), Shift(vec, 0, 1)}
  \cup {Shift(vec, JumpThreshold + 1, 0), Shift(vec, 0, JumpThreshold + 1)}
  \cup {[vec EXCEPT ![i] = NaN] : i \in {1, 6}}

TOutcomes(tt, tn) ==
  {[kind |-> "none", last |-> tt]}
  \cup {[kind |-> "ok", last |-> l] : l \in {tt, tt + 1, tn} \cap (tt..tn)}

Reached(tn) == [kind |-> "ok", last |-> tn]

SolverOutcomes(tt, tn, vec) ==
  {[success |-> FALSE, y |-> [kind |-> "ok", v |-> vec], t |-> T] : T \in TOutcomes(tt, tn)}
  \cup {[success |-> TRUE, y |-> [kind |-> yk, v |-> vec], t |-> [kind |-> "none", last |-> tt]]
          : yk \in {"none", "empty"}}
  \cup {[success |-> TRUE, y |-> [kind |-> "ok", v |-> v], t |-> Reached(tn)]
          : v \in YOutcomes(vec)}
  \cup {[success |-> TRUE, y |-> [kind |-> "ok", v |-> Shift(vec, 1, 0)], t |-> T]
          : T \in TOutcomes(tt, tn)}

(* The locals and observers of one iteration.  Once the iteration ends, by *)
(* reaching the loop head again, by break or by an exception raised after  *)
(* the segment was integrated, every one of them is dead:                  *)
(* the next iteration assigns each before reading it (runner.py 246-289)   *)
(* and the code after the loop reads only t, k and term_reason (runner.py  *)
(* 422-459).  The model forgets them there, so that states which differ    *)
(* only in dead values coincide.                                           *)
iter_vars ==
  <<state, up, control, env, t_next, fun, y_out, n_evals, compute_calls,
    sample_calls, force_calls, fun_evals>>

ForgetIteration ==
  /\ state' = NoState /\ up' = NoControl /\ control' = NoControl
  /\ env' = EnvironmentSample(0) /\ t_next' = 0
  /\ fun' = [control_k |-> NoControl, env_k |-> EnvironmentSample(0)]
  /\ y_out' = get_initial_state_vector(NoState)
  /\ n_evals' = 0
  /\ compute_calls' = <<>> /\ sample_calls' = <<>>
  /\ force_calls' = {} /\ fun_evals' = {}

(* runner.py 293-338: solve_ivp returns; failure, empty output and         *)
(* internal stagnation end the loop                                        *)
SolverReturn ==
  /\ pc = "solving"
  /\ \E sol \in SolverOutcomes(t, t_next, y) :
       /\ stall' = IF /\ sol.success /\ sol.y.kind = "ok" /\ sol.t.kind = "ok"
                      /\ BelowMinAdvance(sol.t.last - t, config.dt)
                   THEN [seen |-> TRUE, t |-> t, k |-> k]
                   ELSE stall
       /\ IF ~sol.success \/ sol.y.kind = "none" THEN
            LET sol_last_t == IF sol.t.kind = "ok" THEN sol.t.last ELSE t IN
            /\ term_reason' = "solver_failed: message"
            /\ t' = IF BelowMinAdvance(sol_last_t - t, config.dt) THEN t ELSE sol_last_t
            /\ pc' = "finish"
            /\ ForgetIteration
          ELSE IF sol.y.kind = "empty" THEN
            /\ term_reason' = "solver_no_output"
            /\ pc' = "finish"
            /\ t' = t
            /\ ForgetIteration
          ELSE IF /\ sol.t.kind = "ok"
                  /\ BelowMinAdvance(sol.t.last - t, config.dt)
                  /\ ~BelowMinAdvance(t_next - t, config.dt) THEN
            /\ term_reason' = "solver_stagnation_internal"
            /\ pc' = "finish"
            /\ t' = t
            /\ ForgetIteration
          ELSE
            /\ y_out' = sol.y.v
            /\ pc' = "accept"
            /\ n_evals' = 0
            /\ fun_evals' = {}
            /\ UNCHANGED <<t, term_reason, state, up, control, env, t_next, fun,
                           compute_calls, sample_calls, force_calls>>
  /\ UNCHANGED <<config, vessel_params, initial_state, provider_current, writer,
                 summary_writer, k, y, rpm_cmd, rudder_cmd, result, exc, written, hist>>
  /\ UNCHANGED outside_runner

(* a tick record with the loop time put after the step *)
TickRecord_PostStep ==
  [kind |-> "tick", t |-> t_next, k |-> k, x |-> state.x, y |-> state.y]

(* runner.py 346-397: the record of an iteration; of the logged state the  *)
(* position is kept                                                        *)
TickRecord == [kind |-> "tick", t |-> t, k |-> k, x |-> state.x, y |-> state.y]

(* the decimation test taken on the number of the step being completed *)
LogsTick_CountsFromOne(kk, cfg) == writer /\ ((kk + 1) % cfg.output_decimation) = 0

(* runner.py 345: the decimation test of the tick log *)
LogsTick(kk, cfg) == writer /\ (kk % cfg.output_decimation) = 0

(* runner.py 340-420: accept the segment's result, numerical check, tick   *)
(* log, stagnation test, advance of time and tick counter, termination     *)
(* bounds                                                                  *)
Accept ==
  /\ pc = "accept"
  /\ y' = y_out
  /\ LET state_next == unpack_state_vector(y_out) IN
       IF detect_numerical_issue(state, state_next) # "ok" THEN
         /\ Raise(detect_numerical_issue(state, state_next))
         /\ UNCHANGED <<t, k, term_reason, written>>
         /\ ForgetIteration
       ELSE
         /\ written' = IF LogsTick(k, config) THEN Append(written, TickRecord) ELSE written
         /\ exc' = None
         /\ ForgetIteration
         /\ IF BelowMinAdvance(t_next - t, config.dt) THEN
              /\ term_reason' = "solver_stagnation_no_time_advance"
              /\ pc' = "finish"
              /\ UNCHANGED <<t, k>>
            ELSE
              /\ t' = t_next
              /\ k' = k + 1
              /\ LET reason == apply_termination_bounds(state_next, config) IN
                   IF reason # None
                   THEN term_reason' = reason /\ pc' = "finish"
                   ELSE term_reason' = term_reason /\ pc' = "loop"
  /\ UNCHANGED <<config, vessel_params, initial_state, provider_current, writer,
                 summary_writer, rpm_cmd, rudder_cmd, result, hist, stall>>
  /\ UNCHANGED outside_runner

(* runner.py 244: the loop test fails *)
ExitLoop ==
  /\ pc = "loop"
  /\ ~LoopCond(t, config.t_end)
  /\ pc' = "finish"
  /\ UNCHANGED <<config, vessel_params, initial_state, provider_current, writer,
                 summary_writer, t, k, y, term_reason, rpm_cmd, rudder_cmd, state, up,
                 control, env, t_next, fun, y_out, n_evals, result, exc, written,
                 compute_calls, sample_calls, force_calls, fun_evals, hist, stall>>
  /\ UNCHANGED outside_runner

(* the status decided by the time alone *)
Status_IgnoresReason(tt, reason, cfg) ==
  IF tt >= cfg.t_end THEN "completed" ELSE "terminated"

(* runner.py 422-424 *)
Status(tt, reason, cfg) ==
  IF tt >= cfg.t_end /\ reason = None THEN "completed" ELSE "terminated"

(* runner.py 441-448 *)
Summary(status, reason, tt, kk) ==
  [kind |-> "summary", status |-> status,
   reason |-> IF status = "terminated" THEN reason ELSE "completed",
   end_time |-> tt, ticks |-> kk]

(* runner.py 422-459: status, summary, result *)
Finish ==
  /\ pc = "finish"
  /\ LET status == Status(t, term_reason, config) IN
       /\ written' = IF summary_writer
                     THEN Append(written, Summary(status, term_reason, t, k))
                     ELSE written
       /\ result' = [status |-> status, reason |-> term_reason, end_time |-> t, ticks |-> k]
  /\ pc' = "done"
  /\ UNCHANGED <<config, vessel_params, initial_state, provider_current, writer,
                 summary_writer, t, k, y, term_reason, rpm_cmd, rudder_cmd, state, up,
                 control, env, t_next, fun, y_out, n_evals, exc, compute_calls,
                 sample_calls, force_calls, fun_evals, hist, stall>>
  /\ UNCHANGED outside_runner

RunnerNext ==
  \/ Start
  \/ SampleControl
  \/ SampleEnv
  \/ SolverEval
  \/ SolverReturn
  \/ Accept
  \/ ExitLoop
  \/ Finish

---------------------------------------------------------------------------
(* RatePIDAutopilot (src/maris/control/pid.py).  Times are counted in      *)
(* nanoseconds, so that the 1e-9 s floor of dt is PidMinDt; angles in      *)
(* quarter turns, so that pi is Pi.  The derivative term is a quotient:    *)
(* outputs are exact fractions [num, den] with den > 0.                    *)

NoneF == <<>>
Some(x) == <<x>>
Rat(n, d) == [num |-> n, den |-> d]
RatLt(a, b) == a.num * b.den < b.num * a.den
RatEq(a, b) == a.num * b.den = b.num * a.den
RatMin(a, b) == IF RatLt(b, a) THEN b ELSE a
RatMax(a, b) == IF RatLt(a, b) THEN b ELSE a
Hypot(a, b) == CHOOSE r \in 0..(Abs(a) + Abs(b)) : r * r = a * a + b * b

PIDConfig(kp, ki, kd, u_min, u_max) ==
  [kp |-> kp, ki |-> ki, kd |-> kd, u_min |-> u_min, u_max |-> u_max]

(* _pid_step that lets the integral accumulate while saturated *)
pid_step_NoFreeze(tt, err, cfg, last_err, e_int, last) ==
  LET first == last = NoneF
      dt == IF first THEN 0
            ELSE IF tt - last[1] > PidMinDt THEN tt - last[1] ELSE PidMinDt
      de == IF first THEN Rat(0, 1)
            ELSE Rat(err - (IF last_err = NoneF THEN 0 ELSE last_err[1]), dt)
      e_int_new == e_int + err * dt
      u == Rat((cfg.kp * err + cfg.ki * e_int_new) * de.den + cfg.kd * de.num, de.den)
      u_sat == RatMax(Rat(cfg.u_min, 1), RatMin(Rat(cfg.u_max, 1), u))
  IN [u_sat |-> u_sat, e_int |-> e_int_new, err |-> err, u |-> u, dt |-> dt]

(* pid.py 38-52: _pid_step; the result carries, beside the returned        *)
(* (u_sat, e_int_new, err), the unsaturated output u and the dt used.      *)
pid_step(tt, err, cfg, last_err, e_int, last) ==
  LET first == last = NoneF
      dt == IF first THEN 0
            ELSE IF tt - last[1] > PidMinDt THEN tt - last[1] ELSE PidMinDt
      de == IF first THEN Rat(0, 1)
            ELSE Rat(err - (IF last_err = NoneF THEN 0 ELSE last_err[1]), dt)
      e_int_new == e_int + err * dt
      u == Rat((cfg.kp * err + cfg.ki * e_int_new) * de.den + cfg.kd * de.num, de.den)
      u_sat == RatMax(Rat(cfg.u_min, 1), RatMin(Rat(cfg.u_max, 1), u))
  IN [u_sat |-> u_sat,
      e_int |-> IF ~RatEq(u, u_sat) THEN e_int ELSE e_int_new,
      err |-> err,
      u |-> u,
      dt |-> dt]

HeadingConfigs == {PIDConfig(1, 1, 1, -2, 2)}
SpeedConfigs ==
  {PIDConfig(1, 1, 0, -12, 12), PIDConfig(1, 1, 0, 1, -1), PIDConfig(3, 1, 0, -12, 12)}
(* pairs <<target_heading_rad, state.psi>> *)
HeadingCallSet == {<<0, 0>>, <<0, 1>>, <<0, 2>>, <<0, 3>>, <<2, 0>>}
VelocitySet == {<<0, 0>>, <<3, 4>>}
TargetSpeedSet == {0, 5}
NoObs == [valid |-> FALSE, u |-> Rat(0, 1), u_sat |-> Rat(0, 1), e_int |-> 0, dt |-> 0]
NoRun == [n |-> 0, e0 |-> 0]
NoCall == [target_heading_rad |-> 0, psi |-> 0]

(* pid.py 18-29: a fresh autopilot *)
AutopilotFresh ==
  /\ e_int_heading = 0 /\ e_int_speed = 0
  /\ last_heading_err = NoneF /\ last_speed_err = NoneF /\ last_t = NoneF
  /\ n_updates = 0
  /\ obs_heading = NoObs /\ obs_speed = NoObs
  /\ sat_heading = NoRun /\ sat_speed = NoRun
  /\ last_call = NoCall

PidInit ==
  /\ heading \in HeadingConfigs
  /\ speed \in SpeedConfigs
  /\ AutopilotFresh

Observe(res, e_int) ==
  [valid |-> TRUE, u |-> res.u, u_sat |-> res.u_sat, e_int |-> e_int, dt |-> res.dt]
NextRun(run, res, e_int) ==
  IF RatEq(res.u, res.u_sat) THEN NoRun
  ELSE IF run.n = 0 THEN [n |-> 1, e0 |-> e_int]
  ELSE [run EXCEPT !.n = run.n + 1]

(* pid.py 57-58: the heading error, wrapped *)
HeadingError(target_heading_rad, psi) ==
  (((target_heading_rad - psi) + Pi) % (2 * Pi)) - Pi

(* pid.py 54-69: update *)
update ==
  /\ n_updates < MaxUpdates
  /\ \E tt \in 0..MaxPidT, hc \in HeadingCallSet, vel \in VelocitySet,
        target_speed_ms \in TargetSpeedSet :
       LET target_heading_rad == hc[1]
           psi == hc[2]
           dpsi == HeadingError(target_heading_rad, psi)
           sog == Hypot(vel[1], vel[2])
           h == pid_step(tt, dpsi, heading, last_heading_err, e_int_heading, last_t)
           speed_err == target_speed_ms - sog
           sp == pid_step(tt, speed_err, speed, last_speed_err, e_int_speed, last_t)
       IN /\ e_int_heading' = h.e_int
          /\ last_heading_err' = Some(h.err)
          /\ e_int_speed' = sp.e_int
          /\ last_speed_err' = Some(sp.err)
          /\ last_t' = Some(tt)
          /\ obs_heading' = Observe(h, e_int_heading)
          /\ obs_speed' = Observe(sp, e_int_speed)
          /\ sat_heading' = NextRun(sat_heading, h, e_int_heading)
          /\ sat_speed' = NextRun(sat_speed, sp, e_int_speed)
          /\ last_call' = [target_heading_rad |-> target_heading_rad, psi |-> psi]
  /\ n_updates' = n_updates + 1
  /\ UNCHANGED <<heading, speed>>
  /\ UNCHANGED outside_pid

(* a reset that leaves the integral accumulators as they are *)
reset_KeepsIntegral ==
  /\ last_t # NoneF
  /\ last_heading_err' = NoneF /\ last_speed_err' = NoneF /\ last_t' = NoneF
  /\ obs_heading' = NoObs /\ obs_speed' = NoObs
  /\ sat_heading' = NoRun /\ sat_speed' = NoRun
  /\ last_call' = NoCall
  /\ UNCHANGED <<heading, speed, n_updates, e_int_heading, e_int_speed>>
  /\ UNCHANGED outside_pid

(* pid.py 31-36: reset *)
reset ==
  /\ last_t # NoneF
  /\ e_int_heading' = 0 /\ e_int_speed' = 0
  /\ last_heading_err' = NoneF /\ last_speed_err' = NoneF /\ last_t' = NoneF
  /\ obs_heading' = NoObs /\ obs_speed' = NoObs
  /\ sat_heading' = NoRun /\ sat_speed' = NoRun
  /\ last_call' = NoCall
  /\ UNCHANGED <<heading, speed, n_updates>>
  /\ UNCHANGED outside_pid

PidNext ==
  \/ update
  \/ reset

---------------------------------------------------------------------------
(* Single calls of the validation and vector-mapping functions, on         *)
(* arguments drawn from small sets.                                        *)

FnIdle == fn = "none" /\ arg = <<>> /\ ret = <<>>

Returns(name, a, r) == fn' = name /\ arg' = a /\ ret' = r

FloatSet == {-1, 0, 1, NaN}
LimitSet == {0, 1, NaN}
VesselParamsSet ==
  [m : FloatSet, Iz : FloatSet, rpm_min : LimitSet, rpm_max : LimitSet,
   rudder_min : LimitSet, rudder_max : LimitSet]

(* validation.py 10-18, called on arbitrary parameters *)
CallValidateParams ==
  /\ fn = "none"
  /\ \E params \in VesselParamsSet :
       Returns("validate_params", params, validate_params(params))
  /\ UNCHANGED outside_fn

(* model.py 51-57: the modules in the order they are summed *)
ModuleOrder == <<"hull", "propulsion", "rudder", "wind", "current">>

(* model.py 61-63: out.get(key, 0.0) *)
Get(out, key) == IF key \in DOMAIN out THEN out[key] ELSE 0

NoForces == [X |-> 0, Y |-> 0, N |-> 0, components |-> <<>>]

(* an aggregation that leaves the last module out of the totals *)
RECURSIVE sum_loop_SkipsCurrent(_, _, _, _)
sum_loop_SkipsCurrent(i, mods, outs, acc) ==
  IF i > Len(ModuleOrder) THEN acc
  ELSE LET name == ModuleOrder[i] IN
       IF ~mods[name] THEN sum_loop_SkipsCurrent(i + 1, mods, outs, acc)
       ELSE LET X == Get(outs[name], "X")
                Y == Get(outs[name], "Y")
                N == Get(outs[name], "N")
                counted == name # "current"
            IN sum_loop_SkipsCurrent(i + 1, mods, outs,
                 [X |-> IF counted THEN Add(acc.X, X) ELSE acc.X,
                  Y |-> IF counted THEN Add(acc.Y, Y) ELSE acc.Y,
                  N |-> IF counted THEN Add(acc.N, N) ELSE acc.N,
                  components |-> acc.components @@ (name :> [X |-> X, Y |-> Y, N |-> N])])

(* model.py 47-69: _sum_forces from its loop's i-th module on; mods[name]  *)
(* tells whether the module is not None, outs[name] is what its compute    *)
(* returns.                                                                *)
RECURSIVE sum_loop(_, _, _, _)
sum_loop(i, mods, outs, acc) ==
  IF i > Len(ModuleOrder) THEN acc
  ELSE LET name == ModuleOrder[i] IN
       IF ~mods[name] THEN sum_loop(i + 1, mods, outs, acc)
       ELSE LET X == Get(outs[name], "X")
                Y == Get(outs[name], "Y")
                N == Get(outs[name], "N")
            IN sum_loop(i + 1, mods, outs,
                 [X |-> Add(acc.X, X), Y |-> Add(acc.Y, Y), N |-> Add(acc.N, N),
                  components |-> acc.components @@ (name :> [X |-> X, Y |-> Y, N |-> N])])

ModuleNames == {ModuleOrder[i] : i \in 1..Len(ModuleOrder)}
ModuleConfigs ==
  {[n \in ModuleNames |-> TRUE], [n \in ModuleNames |-> n \notin {"wind", "rudder"}]}
OutSet == {[X |-> 1, Y |-> 2, N |-> -1], [X |-> 2], [Y |-> -1, N |-> 3]}

(* model.py 47-69, called on arbitrary module outputs *)
CallSumForces ==
  /\ fn = "none"
  /\ \E mods \in ModuleConfigs, outs \in [ModuleNames -> OutSet] :
       Returns("_sum_forces", [mods |-> mods, outs |-> outs],
               sum_loop(1, mods, outs, NoForces))
  /\ UNCHANGED outside_fn

(* model.py 72-74, called on an arbitrary control *)
CallModelForces ==
  /\ fn = "none"
  /\ \E c \in CommandSet : Returns("forces", c, model_forces(c, vessel_params))
  /\ UNCHANGED outside_fn

(* model.py 76-105, called on an arbitrary control *)
CallModelF ==
  /\ fn = "none"
  /\ \E c \in CommandSet : Returns("f", c, model_f(c))
  /\ UNCHANGED outside_fn

(* Finite floats of the vector mapping helpers' arguments.                  *)
FiniteFloatSet == FloatSet \ {NaN}

StateVectorSet == [1..6 -> FiniteFloatSet]

VesselStateSet ==
  [t : FiniteFloatSet, x : FiniteFloatSet, y : FiniteFloatSet,
   psi : FiniteFloatSet, u : FiniteFloatSet, v : FiniteFloatSet,
   r : FiniteFloatSet]

(* get_initial_state_vector(unpack_state_vector(y)) for a six-element y.    *)
CallUnpackPack ==
  /\ fn = "none"
  /\ \E vec \in StateVectorSet :
       Returns("unpack_pack", vec,
               get_initial_state_vector(unpack_state_vector(vec)))
  /\ UNCHANGED outside_fn

(* unpack_state_vector(get_initial_state_vector(s)) for a VesselState s.    *)
CallPackUnpack ==
  /\ fn = "none"
  /\ \E st \in VesselStateSet :
       Returns("pack_unpack", st,
               unpack_state_vector(get_initial_state_vector(st)))
  /\ UNCHANGED outside_fn

---------------------------------------------------------------------------
(* maris/forces/*.py and MMG3DOFModel.f: the force formulas in exact       *)
(* rational arithmetic.  A float is the fraction num/den in lowest terms   *)
(* with den > 0; headings and directions are whole quarter turns, where    *)
(* cos and sin are exact.                                                  *)

RECURSIVE Gcd(_, _)
Gcd(a, b) == IF b = 0 THEN a ELSE Gcd(b, a % b)

Q(n, d) ==
  LET g == Gcd(Abs(n), d)
  IN [num |-> n \div g, den |-> d \div g]

QInt(i) == [num |-> i, den |-> 1]
QNeg(a) == [num |-> -a.num, den |-> a.den]
QAbs(a) == [num |-> Abs(a.num), den |-> a.den]
QAdd(a, b) ==
  LET g == Gcd(a.den, b.den)
  IN Q(a.num * (b.den \div g) + b.num * (a.den \div g), (a.den \div g) * b.den)
QSub(a, b) == QAdd(a, QNeg(b))
QMul(a, b) ==
  LET g1 == Gcd(Abs(a.num), b.den)
      g2 == Gcd(Abs(b.num), a.den)
  IN [num |-> (a.num \div g1) * (b.num \div g2),
      den |-> (a.den \div g2) * (b.den \div g1)]
QInv(b) ==
  IF b.num > 0 THEN [num |-> b.den, den |-> b.num]
               ELSE [num |-> -b.den, den |-> -b.num]
QDiv(a, b) == QMul(a, QInv(b))
QLt(a, b) == a.num * b.den < b.num * a.den
QLe(a, b) == a.num * b.den <= b.num * a.den
QMax(a, b) == IF QLt(a, b) THEN b ELSE a
QMin(a, b) == IF QLt(b, a) THEN b ELSE a
QZero == QInt(0)
QOne == QInt(1)
QSum(s) == QAdd(QAdd(QAdd(QAdd(s[1], s[2]), s[3]), s[4]), s[5])

(* math.cos and math.sin at a whole number of quarter turns *)
Cos(a) == QInt(<<1, 0, -1, 0>>[(a % 4) + 1])
Sin(a) == QInt(<<0, 1, 0, -1>>[(a % 4) + 1])

(* math.copysign(x, s) *)
CopySign(x, s) == IF s.num < 0 THEN QNeg(QAbs(x)) ELSE QAbs(x)

(* float(d.get(key, default)) *)
GetQ(d, key, default) == IF key \in DOMAIN d THEN d[key] ELSE default

(* The value a compute returns, or the exception it raises. *)
Force(X, Y, N) == [exc |-> None, X |-> X, Y |-> Y, N |-> N]
Raises(e) == [exc |-> e, X |-> QZero, Y |-> QZero, N |-> QZero]

(* hull.py 27-89 *)
HullForce_compute(st, ctrl, ev, params) ==
  LET hp == params.hull_params
      Xu == GetQ(hp, "Xu", QInt(-50000))
      Xuu == GetQ(hp, "Xuu", QInt(-5000))
      Yv == GetQ(hp, "Yv", QInt(-1000000))
      Yvv == GetQ(hp, "Yvv", QInt(-50000))
      Nr == GetQ(hp, "Nr", QInt(-100000000))
      Nrr == GetQ(hp, "Nrr", QInt(-5000000))
      Yuv == GetQ(hp, "Yuv", QInt(-200000))
      Yur == GetQ(hp, "Yur", QInt(1000000))
      Nuv == GetQ(hp, "Nuv", QInt(-50000000))
      Nur == GetQ(hp, "Nur", QInt(-200000000))
      Xvr == GetQ(hp, "Xvr", QInt(-200000))
      Xvv == GetQ(hp, "Xvv", QInt(-10000))
      Xrr == GetQ(hp, "Xrr", QInt(-1000000))
      Yvr == GetQ(hp, "Yvr", QInt(-500000))
      Nvv == GetQ(hp, "Nvv", QInt(-10000000))
      u == st.u
      v == st.v
      r == st.r
      X == QSum(<<QMul(Xu, u),
                  QMul(QMul(Xuu, u), QAbs(u)),
                  QMul(QMul(Xvr, v), r),
                  QMul(QMul(Xvv, v), QAbs(v)),
                  QMul(QMul(Xrr, r), QAbs(r))>>)
      Y == QSum(<<QMul(Yv, v),
                  QMul(QMul(Yvv, v), QAbs(v)),
                  QMul(QMul(Yuv, u), v),
                  QMul(QMul(Yur, u), r),
                  QMul(QMul(Yvr, v), r)>>)
      N == QSum(<<QMul(Nr, r),
                  QMul(QMul(Nrr, r), QAbs(r)),
                  QMul(QMul(Nuv, u), v),
                  QMul(QMul(Nur, u), r),
                  QMul(QMul(Nvv, v), QAbs(v))>>)
  IN Force(X, Y, N)

(* propulsion.py 52-71: the efficiency, or the exception of line 60 *)
Tiny == Q(1, 1000000)

(* an efficiency that is 1 instead of 0 when the propeller is stopped *)
Efficiency_OneWhenStopped(rpm, u, wake_fraction, diameter, efficiency_max) ==
  [exc |-> None, val |-> QOne]

Efficiency(rpm, u, wake_fraction, diameter, efficiency_max) ==
  LET Va == QMul(u, QSub(QOne, wake_fraction))
      n == QDiv(QAbs(rpm), QInt(60))
      J_opt == Q(7, 10)
      J == IF QLt(Tiny, n) THEN QDiv(Va, QMul(n, diameter)) ELSE QZero
  IN IF QLt(Tiny, QAbs(rpm))
     THEN IF QLt(Tiny, n) /\ QMul(n, diameter).num = 0
          THEN [exc |-> "ZeroDivisionError", val |-> QZero]
          ELSE [exc |-> None,
                val |-> IF QLe(J, J_opt)
                        THEN QMul(efficiency_max, QDiv(J, J_opt))
                        ELSE QMul(efficiency_max,
                                  QMax(QZero,
                                       QSub(QOne, QMul(Q(1, 2), QSub(J, J_opt)))))]
     ELSE [exc |-> None, val |-> QZero]

(* propulsion.py 23-86 *)
PropulsionForce_compute(st, ctrl, ev, params) ==
  LET pp == params.prop_params
      T0 == GetQ(pp, "T0", QZero)
      T1 == GetQ(pp, "T1", QZero)
      T2 == GetQ(pp, "T2", QInt(50))
      steer_gain == GetQ(pp, "steer_gain", Q(1, 100))
      x_prop == GetQ(pp, "x_prop", QMul(Q(-1, 2), params.Lpp))
      diameter == GetQ(pp, "diameter", QMul(Q(1, 10), params.Lpp))
      wake_fraction == GetQ(pp, "wake_fraction", Q(3, 10))
      thrust_deduction == GetQ(pp, "thrust_deduction", Q(1, 5))
      efficiency_max == GetQ(pp, "efficiency_max", Q(7, 10))
      rpm == ctrl.rpm
      efficiency == Efficiency(rpm, st.u, wake_fraction, diameter, efficiency_max)
      thrust_base == QAdd(QAdd(T0, QMul(T1, rpm)), QMul(QMul(T2, rpm), QAbs(rpm)))
      thrust_effective ==
        QMul(QMul(thrust_base, efficiency.val), QSub(QOne, thrust_deduction))
      X == thrust_effective
      Y == QMul(QMul(steer_gain, thrust_effective), ctrl.rudder_angle)
      N == QMul(QNeg(Y), x_prop)
  IN IF efficiency.exc # None
     THEN Raises("ZeroDivisionError")
     ELSE Force(X, Y, N)

(* math.pi as a fraction *)
PiQ == Q(355, 113)

(* rudder.py 22-90.  V_effective enters only through its square, so the    *)
(* square root of line 48 is not taken:                                    *)
(* V_effective^2 = (u^2 + 0.25 v^2) * max(1, slipstream gain)^2.           *)
RudderForce_compute(st, ctrl, ev, params) ==
  LET rp == params.rudder_params
      S == GetQ(rp, "area",
                QMax(QOne, QMul(QMul(Q(1, 50), params.Lpp), params.T)))
      a_lift == GetQ(rp, "a_lift", Q(157, 25))
      c_drag_0 == GetQ(rp, "c_drag", Q(2, 25))
      x_r == GetQ(rp, "x_rudder", QMul(Q(-9, 20), params.Lpp))
      stall_angle == GetQ(rp, "stall_angle", Q(7, 20))
      slipstream_factor == GetQ(rp, "slipstream_factor", Q(3, 2))
      aspect_ratio == GetQ(rp, "aspect_ratio", QInt(2))
      rho == params.rho_water
      V_hull_sq == QAdd(QMul(st.u, st.u),
                        QMul(Q(1, 4), QMul(st.v, st.v)))
      rpm == QAbs(ctrl.rpm)
      gain == IF QLt(Tiny, rpm)
              THEN QMax(QOne,
                        QMul(slipstream_factor,
                             QMin(QOne, QDiv(rpm, QInt(50)))))
              ELSE QOne
      q == QMul(QMul(Q(1, 2), rho), QMul(V_hull_sq, QMul(gain, gain)))
      delta == ctrl.rudder_angle
      delta_abs == QAbs(delta)
      linear == QLe(delta_abs, stall_angle)
      Cl == IF linear
            THEN QMul(a_lift, delta)
            ELSE LET Cl_max == QMul(a_lift, stall_angle)
                     stall_factor ==
                       QMax(Q(3, 10),
                            QSub(QOne,
                                 QDiv(QMul(Q(1, 2), QSub(delta_abs, stall_angle)),
                                      stall_angle)))
                 IN CopySign(QMul(Cl_max, stall_factor), delta)
      induced_drag_factor == QDiv(QMul(Cl, Cl), QMul(PiQ, aspect_ratio))
      ratio == QDiv(delta_abs, stall_angle)
      angle_drag == QMul(c_drag_0, QMul(ratio, ratio))
      Cd == QAdd(QAdd(c_drag_0, induced_drag_factor), angle_drag)
      Y == QMul(QMul(q, S), Cl)
      X == QMul(QNeg(QMul(q, S)), Cd)
      N == QMul(QNeg(Y), x_r)
  IN IF stall_angle.num = 0 \/ aspect_ratio.num = 0
     THEN Raises("ZeroDivisionError")
     ELSE Force(X, Y, N)

(* wind.py 32-79, with the constructor's defaults (wind.py 20-30) *)
WindForce_compute(st, ctrl, ev, params) ==
  LET rho_air == Q(49, 40)
      cx == Q(4, 5)
      cy == QOne
      lever_coeff == Q(1, 2)
      A == QMul(params.B, params.T)
      Vw == QMax(QZero, ev.wind_speed)
      theta_to == ev.wind_dir_from + Pi
      wind_world_x == QMul(Vw, Cos(theta_to))
      wind_world_y == QMul(Vw, Sin(theta_to))
      c == Cos(st.psi)
      s == Sin(st.psi)
      vessel_world_x == QSub(QMul(st.u, c), QMul(st.v, s))
      vessel_world_y == QAdd(QMul(st.u, s), QMul(st.v, c))
      apparent_wind_world_x == QSub(wind_world_x, vessel_world_x)
      apparent_wind_world_y == QSub(wind_world_y, vessel_world_y)
      c_body == Cos(-st.psi)
      s_body == Sin(-st.psi)
      wx == QSub(QMul(c_body, apparent_wind_world_x),
                 QMul(s_body, apparent_wind_world_y))
      wy == QAdd(QMul(s_body, apparent_wind_world_x),
                 QMul(c_body, apparent_wind_world_y))
      half_rho == QMul(Q(-1, 2), rho_air)
      X == QMul(QMul(QMul(half_rho, cx), A), QMul(wx, QAbs(wx)))
      Y == QMul(QMul(QMul(half_rho, cy), A), QMul(wy, QAbs(wy)))
      N == QMul(Y, QMul(lever_coeff, params.Lpp))
  IN Force(X, Y, N)

(* current.py 38-92, with the constructor's defaults (current.py 20-36);   *)
(* EnvironmentSample has no depth attribute, so depth_factor stays 1.0.    *)
CurrentForce_compute(st, ctrl, ev, params) ==
  LET cp == params.current_params
      kx_linear == GetQ(cp, "kx_linear", QInt(50000))
      ky_linear == GetQ(cp, "ky_linear", QInt(100000))
      kx_quad == GetQ(cp, "kx_quad", QInt(2000))
      ky_quad == GetQ(cp, "ky_quad", QInt(5000))
      lever_coeff == Q(1, 2)
      Vc == QMax(QZero, ev.current_speed)
      theta_to == ev.current_dir_to
      cw_x == QMul(Vc, Cos(theta_to))
      cw_y == QMul(Vc, Sin(theta_to))
      c == Cos(-st.psi)
      s == Sin(-st.psi)
      c_body_x == QSub(QMul(c, cw_x), QMul(s, cw_y))
      c_body_y == QAdd(QMul(s, cw_x), QMul(c, cw_y))
      rel_u == QSub(st.u, c_body_x)
      rel_v == QSub(st.v, c_body_y)
      depth_factor == QOne
      X_linear == QMul(QNeg(kx_linear), rel_u)
      Y_linear == QMul(QNeg(ky_linear), rel_v)
      X_quad == QMul(QMul(QNeg(kx_quad), rel_u), QAbs(rel_u))
      Y_quad == QMul(QMul(QNeg(ky_quad), rel_v), QAbs(rel_v))
      X == QMul(depth_factor, QAdd(X_linear, X_quad))
      Y == QMul(depth_factor, QAdd(Y_linear, Y_quad))
      N == QMul(Y, QMul(lever_coeff, params.Lpp))
  IN Force(X, Y, N)

(* bow_thruster.py 31-82: line 51 reads control.bow_thruster_force, an     *)
(* attribute no ControlInput (types.py 19-25) has; nothing before line 51  *)
(* returns or raises.                                                      *)
BowThrusterForce_compute(st, ctrl, ev, params) ==
  Raises("AttributeError")

(* stern_thruster.py 31-89: line 51 reads control.stern_thruster_force.    *)
SternThrusterForce_compute(st, ctrl, ev, params) ==
  Raises("AttributeError")

(* model.py 47-69 with the default modules of model.py 34-45: the outputs  *)
(* in the order they are computed; the first exception propagates.         *)
ModuleOutputs(st, ctrl, ev, params) ==
  <<HullForce_compute(st, ctrl, ev, params),
    PropulsionForce_compute(st, ctrl, ev, params),
    RudderForce_compute(st, ctrl, ev, params),
    WindForce_compute(st, ctrl, ev, params),
    CurrentForce_compute(st, ctrl, ev, params)>>

Derivatives(e, dx, dy, dpsi, du, dv, dr) ==
  [exc |-> e, dx |-> dx, dy |-> dy, dpsi |-> dpsi, du |-> du, dv |-> dv, dr |-> dr]

(* model.py 47-69: the totals of the outputs; an exception raised by a     *)
(* module propagates.                                                      *)
Totals(outs) ==
  LET failed == {i \in 1..5 : outs[i].exc # None}
  IN IF failed # {}
     THEN Raises(outs[CHOOSE i \in failed : \A j \in failed : i <= j].exc)
     ELSE Force(QSum([i \in 1..5 |-> outs[i].X]),
                QSum([i \in 1..5 |-> outs[i].Y]),
                QSum([i \in 1..5 |-> outs[i].N]))

TotalForce(st, ctrl, ev, params) == Totals(ModuleOutputs(st, ctrl, ev, params))

(* model.py 76-83 and 86-105, F being the result of line 85 *)
f_of_forces(st, params, F) ==
  LET c == Cos(st.psi)
      s == Sin(st.psi)
      dx == QSub(QMul(st.u, c), QMul(st.v, s))
      dy == QAdd(QMul(st.u, s), QMul(st.v, c))
      dpsi == st.r
      m_eff_x == QMax(Tiny, QSub(params.m, params.X_u_dot))
      m_eff_y == QMax(Tiny, QSub(params.m, params.Y_v_dot))
      Iz_eff == QMax(Tiny, QSub(params.Iz, params.N_r_dot))
      coriolis_x == QMul(QMul(QNeg(params.m), st.v), st.r)
      coriolis_y == QMul(QMul(params.m, st.u), st.r)
      du == QDiv(QAdd(F.X, coriolis_x), m_eff_x)
      dv == QDiv(QAdd(F.Y, coriolis_y), m_eff_y)
      dr == QDiv(F.N, Iz_eff)
  IN IF F.exc # None
     THEN Derivatives(F.exc, QZero, QZero, QZero, QZero, QZero, QZero)
     ELSE Derivatives(None, dx, dy, dpsi, du, dv, dr)

(* model.py 76-105 *)
mmg_f(st, ctrl, ev, params) ==
  f_of_forces(st, params, TotalForce(st, ctrl, ev, params))

(* Arguments of the force computations *)
QState(x, ypos, psi, u, v, r) ==
  [t |-> QZero, x |-> QInt(x), y |-> QInt(ypos), psi |-> psi,
   u |-> QInt(u), v |-> QInt(v), r |-> QInt(r)]

QStateSet ==
  {QState(x, 0, psi, u, v, r) :
     x \in {0, 1}, psi \in 0..3, u \in {-1, 0, 1}, v \in {-1, 0, 1}, r \in {-1, 0, 1}}

QEnvSet ==
  [wind_speed : {QZero, QOne}, wind_dir_from : {0, 1},
   current_speed : {QZero, QOne}, current_dir_to : {1}]

Empty == <<>>

ShipParams(prop_params, rudder_params) ==
  [m |-> QInt(1000), Iz |-> QInt(1000), X_u_dot |-> QInt(-100),
   Y_v_dot |-> QInt(-100), N_r_dot |-> QInt(-100), Lpp |-> QInt(100),
   B |-> QInt(40), T |-> QInt(40), rho_water |-> QInt(1024),
   rpm_min |-> -100, rpm_max |-> 100, rudder_min |-> -1, rudder_max |-> 1,
   hull_params |-> Empty, prop_params |-> prop_params,
   rudder_params |-> rudder_params, current_params |-> Empty]

DefaultShip == ShipParams(Empty, Empty)

SmallRudder ==
  [a_lift |-> QInt(6), c_drag |-> Q(1, 10), stall_angle |-> Q(1, 2)]

(* Ships with default and with given coefficients, each with the controls  *)
(* for which every intermediate fraction stays within the integer range.   *)
ForceCallSet ==
  ({DefaultShip, ShipParams([T0 |-> QInt(5)], Empty)}
     \X {[rpm |-> QInt(n), rudder_angle |-> QZero, notes |-> "abs"] : n \in {0, 50}})
  \cup
  ({ShipParams(Empty, SmallRudder)}
     \X {[rpm |-> QInt(n), rudder_angle |-> d, notes |-> "abs"] :
           n \in {0, 50}, d \in {QZero, Q(1, 4), QOne}})

(* MMG3DOFModel().f(t, st, ctrl, ev, params) *)
CallF ==
  /\ fn = "none"
  /\ \E st \in QStateSet, call \in ForceCallSet, ev \in QEnvSet :
       Returns("mmg_f",
               [state |-> st, control |-> call[2], env |-> ev, params |-> call[1]],
               mmg_f(st, call[2], ev, call[1]))
  /\ UNCHANGED outside_fn

(* maris/control/manual.py: ManualControlProvider.  A schedule entry is a   *)
(* mapping with some of the keys t, rpm, rudder_rad.                       *)
MaxSchedule == 2

RECURSIVE InsertByT(_, _)
InsertByT(s, e) ==
  IF s = <<>> THEN <<e>>
  ELSE IF Get(e, "t") < Get(s[Len(s)], "t")
       THEN Append(InsertByT(SubSeq(s, 1, Len(s) - 1), e), s[Len(s)])
       ELSE Append(s, e)

(* manual.py 26: sorted(control_schedule, key=lambda x: x.get("t", 0.0)),  *)
(* a stable sort                                                           *)
RECURSIVE sorted_by_t(_)
sorted_by_t(s) ==
  IF s = <<>> THEN <<>>
  ELSE InsertByT(sorted_by_t(SubSeq(s, 1, Len(s) - 1)), s[Len(s)])

(* manual.py 63-85 *)
find_current_command(schedule, tt) ==
  IF schedule = <<>> THEN [t |-> 0, rpm |-> 0, rudder_rad |-> 0]
  ELSE IF tt <= Get(schedule[1], "t") THEN schedule[1]
  ELSE IF tt >= Get(schedule[Len(schedule)], "t") THEN schedule[Len(schedule)]
  ELSE LET hits == {i \in 1..(Len(schedule) - 1) :
                      Get(schedule[i], "t") <= tt /\ tt < Get(schedule[i + 1], "t")}
       IN IF hits # {}
          THEN schedule[CHOOSE i \in hits : \A j \in hits : i <= j]
          ELSE schedule[Len(schedule)]

Command(e, rpm, rudder_angle) == [exc |-> e, rpm |-> rpm, rudder_angle |-> rudder_angle]

(* manual.py 87-112: the command's values are read, then ControlInput is   *)
(* called with the keyword arguments bow_thruster_force,                   *)
(* bow_thruster_angle, stern_thruster_force and stern_thruster_angle,      *)
(* which the dataclass (types.py 19-25) does not have: TypeError.          *)
create_control_input(cmd) == Command("TypeError", 0, 0)

(* manual.py 14-27 and 42-61: the provider built from control_schedule,    *)
(* then compute(tt, state, target)                                         *)
ManualControlProvider_compute(control_schedule, tt) ==
  IF sorted_by_t(control_schedule) = <<>>
  THEN Command(None, 0, 0)
  ELSE create_control_input(find_current_command(sorted_by_t(control_schedule), tt))

EntrySet ==
  {[t |-> a, rpm |-> b] : a \in {0, 2}, b \in {1, 2}}
  \cup {[t |-> 1, rpm |-> 1, rudder_rad |-> 1], [rpm |-> 3]}

ScheduleSet == UNION {[1..n -> EntrySet] : n \in 0..MaxSchedule}

(* ManualControlProvider(control_schedule).compute(tt, state, None) *)
CallManualCompute ==
  /\ fn = "none"
  /\ \E control_schedule \in ScheduleSet, tt \in 0..3 :
       Returns("manual_compute", [schedule |-> control_schedule, t |-> tt],
               ManualControlProvider_compute(control_schedule, tt))
  /\ UNCHANGED outside_fn

(* validate_params (validation.py 10-18) on a ship whose mass and inertia  *)
(* are fractions                                                           *)
validate_ship(params) ==
  IF ~QLt(QZero, params.m) THEN "ConfigError"
  ELSE IF ~QLt(QZero, params.Iz) THEN "ConfigError"
  ELSE IF params.rpm_min >= params.rpm_max THEN "ConfigError"
  ELSE IF params.rudder_min >= params.rudder_max THEN "ConfigError"
  ELSE "ok"

ForceModules ==
  {"hull", "propulsion", "rudder", "wind", "current", "bow_thruster", "stern_thruster"}

(* compute of the force module of each file of maris/forces, built with    *)
(* the constructor's defaults                                              *)
compute(name, st, ctrl, ev, params) ==
  CASE name = "hull" -> HullForce_compute(st, ctrl, ev, params)
    [] name = "propulsion" -> PropulsionForce_compute(st, ctrl, ev, params)
    [] name = "rudder" -> RudderForce_compute(st, ctrl, ev, params)
    [] name = "wind" -> WindForce_compute(st, ctrl, ev, params)
    [] name = "current" -> CurrentForce_compute(st, ctrl, ev, params)
    [] name = "bow_thruster" -> BowThrusterForce_compute(st, ctrl, ev, params)
    [] name = "stern_thruster" -> SternThrusterForce_compute(st, ctrl, ev, params)

ComputeStateSet == {st \in QStateSet : st.x = QZero /\ st.psi \in {0, 1}}

(* The calls of CallF, and a rudder whose stall angle is zero *)
ComputeCallSet ==
  ForceCallSet
  \cup {<<ShipParams(Empty, [stall_angle |-> QZero]),
          [rpm |-> QZero, rudder_angle |-> QZero, notes |-> "abs"]>>}

(* <Module>Force().compute(st, ctrl, ev, params) *)
CallCompute ==
  /\ fn = "none"
  /\ \E name \in ForceModules, st \in ComputeStateSet, call \in ComputeCallSet,
        ev \in QEnvSet :
       Returns("compute",
               [module |-> name, state |-> st, control |-> call[2], env |-> ev,
                params |-> call[1]],
               compute(name, st, call[2], ev, call[1]))
  /\ UNCHANGED outside_fn

FnNext ==
  \/ CallValidateParams
  \/ CallSumForces
  \/ CallModelForces
  \/ CallModelF
  \/ CallUnpackPack
  \/ CallPackUnpack
  \/ CallF
  \/ CallCompute
  \/ CallManualCompute

---------------------------------------------------------------------------
(* SimulationRunner.run with the MMG3DOFModel, a provider that returns one *)
(* constant absolute command, a zero environment, a tick writer and no     *)
(* termination bounds.  Time is counted in steps of dt = 0.5 s.            *)

ScenarioSteps == 20

ScenarioIdle ==
  [pc |-> "idle", t |-> 0, k |-> 0, y |-> QState(0, 0, 0, 0, 0, 0),
   ctrl |-> [rpm |-> QZero, rudder_angle |-> QZero, notes |-> "abs"],
   ticks |-> <<>>, term_reason |-> None, status |-> None]

ZeroEnv ==
  [wind_speed |-> QZero, wind_dir_from |-> 0,
   current_speed |-> QZero, current_dir_to |-> 0]

(* validation.py 51-59 on a finite command *)
InLimits(ctrl, params) ==
  /\ QLe(QInt(params.rpm_min), ctrl.rpm) /\ QLe(ctrl.rpm, QInt(params.rpm_max))
  /\ QLe(QInt(params.rudder_min), ctrl.rudder_angle)
  /\ QLe(ctrl.rudder_angle, QInt(params.rudder_max))

IsZeroDerivative(d) ==
  /\ d.dx = QZero /\ d.dy = QZero /\ d.dpsi = QZero
  /\ d.du = QZero /\ d.dv = QZero /\ d.dr = QZero

(* runner.py 128-131 and 203-234: validation passed, the loop is entered   *)
(* at t0 = 0 with the initial state vector.                                *)
ScenarioStart ==
  /\ scenario.pc = "idle"
  /\ \E psi0 \in 0..3, x0 \in {0, 1}, rpm0 \in {0, 50} :
       scenario' = [ScenarioIdle EXCEPT
                      !.pc = "loop",
                      !.y = QState(x0, 0, psi0, 0, 0, 0),
                      !.ctrl = [rpm |-> QInt(rpm0), rudder_angle |-> QZero,
                                notes |-> "abs"]]
  /\ UNCHANGED outside_scenario

(* runner.py 244-420: the loop test and one iteration.  solve_ivp's RK45   *)
(* evaluates every stage at y + h * (a combination of earlier stages), so  *)
(* from a y whose derivative is zero every stage is zero and it returns y; *)
(* from any other y its result is not computed here and the run is left    *)
(* at pc = "moving".                                                       *)
Iteration(sc, params, total, deriv) ==
  LET sc_next == IF ScenarioSteps < sc.t + 1 THEN ScenarioSteps ELSE sc.t + 1
      zero_length == sc_next <= sc.t
      record == [t |-> sc.t, x |-> sc.y.x, u |-> sc.y.u,
                 X |-> total.X, Y |-> total.Y, N |-> total.N]
  IN IF ~(sc.t <= ScenarioSteps)
     THEN [sc EXCEPT !.pc = "exit"]
     ELSE IF ~InLimits(sc.ctrl, params)
     THEN [sc EXCEPT !.pc = "raised"]
     ELSE IF ~zero_length /\ ~IsZeroDerivative(deriv)
     THEN [sc EXCEPT !.pc = "moving"]
     ELSE IF sc_next - sc.t < 1
     THEN [sc EXCEPT !.ticks = Append(@, record),
                     !.term_reason = "solver_stagnation_no_time_advance",
                     !.pc = "exit"]
     ELSE [sc EXCEPT !.ticks = Append(@, record),
                     !.t = sc_next,
                     !.k = @ + 1]

ScenarioStep ==
  /\ scenario.pc = "loop"
  /\ scenario' = Iteration(scenario, DefaultShip,
                           TotalForce(scenario.y, scenario.ctrl, ZeroEnv, DefaultShip),
                           mmg_f(scenario.y, scenario.ctrl, ZeroEnv, DefaultShip))
  /\ UNCHANGED outside_scenario

(* runner.py 422-459 *)
ScenarioFinish ==
  /\ scenario.pc = "exit"
  /\ scenario' = [scenario EXCEPT
                    !.pc = "done",
                    !.status = IF scenario.t >= ScenarioSteps
                                  /\ scenario.term_reason = None
                               THEN "completed" ELSE "terminated"]
  /\ UNCHANGED outside_scenario

ScenarioNext ==
  \/ ScenarioStart
  \/ ScenarioStep
  \/ ScenarioFinish

---------------------------------------------------------------------------
(* Two runs side by side.  Each call of SimulationRunner.run is given its  *)
(* own RateIntegratingControlProvider over its own RatePIDAutopilot.  What *)
(* run keeps in locals lives in the frame of the call; the accumulators    *)
(* rpm_cmd and rudder_cmd are two of these locals and are kept here in a   *)
(* cell of their own, named by AccumulatorOf; the autopilot is an object   *)
(* on the heap, named by the run's provider.  Times are in the runner's    *)
(* unit and always a whole number of nanoseconds; the autopilot is called  *)
(* with nanoseconds.  A writer is attached and logs every tick.            *)

DuoTEnd == 3

Runs == {1, 2}

(* the accumulators kept in one module-level cell *)
AccumulatorOf_Global(run) == 1

(* runner.py 226-234: rpm_cmd and rudder_cmd are locals of run *)
AccumulatorOf(run) == run

NsOf(tt) == tt \div 2

(* the value of a rate that is a whole number *)
RatInt(q) == q.num \div q.den

DuoHeading == PIDConfig(1, 0, 0, -1, 1)
DuoSpeed == PIDConfig(1, 1, 0, -2, 2)

(* pid.py 18-29 *)
FreshAutopilot ==
  [e_int_heading |-> 0, e_int_speed |-> 0, last_heading_err |-> NoneF,
   last_speed_err |-> NoneF, last_t |-> NoneF]

(* pid.py 54-69: update, on the autopilot object a *)
autopilot_update(a, tt, st, target_heading_rad, target_speed_ms) ==
  LET dpsi == HeadingError(target_heading_rad, st.psi)
      sog == Hypot(st.u, st.v)
      h == pid_step(tt, dpsi, DuoHeading, a.last_heading_err, a.e_int_heading, a.last_t)
      sp == pid_step(tt, target_speed_ms - sog, DuoSpeed, a.last_speed_err,
                     a.e_int_speed, a.last_t)
  IN [ap |-> [e_int_heading |-> h.e_int, e_int_speed |-> sp.e_int,
              last_heading_err |-> Some(h.err), last_speed_err |-> Some(sp.err),
              last_t |-> Some(tt)],
      rudder_rate |-> h.u_sat,
      rpm_rate |-> sp.u_sat]

(* rate_provider.py 57-71: the absolute command the provider was built with *)
provider_initial(inp) ==
  ControlInput(PyMax(GoodParams.rpm_min, PyMin(GoodParams.rpm_max, inp.initial_rpm)),
               PyMax(GoodParams.rudder_min, PyMin(GoodParams.rudder_max, 0)),
               "abs")

(* rate_provider.py 73-82: compute with an autopilot and a target attached *)
provider_compute(upd) ==
  ControlInput(RatInt(upd.rpm_rate), RatInt(upd.rudder_rate), "rate")

(* solve_ivp is a function of the segment and of what the segment function *)
(* captured; the one taken here moves x by the surge speed, turns the      *)
(* heading by the rudder command and sets the surge speed to the RPM       *)
(* command.                                                                *)
Solve(vec, ctl, seg) ==
  [vec EXCEPT ![1] = vec[1] + vec[4] * NsOf(seg),
              ![3] = vec[3] + ctl.rudder_angle,
              ![4] = ctl.rpm]

FreshFrame ==
  [pc |-> "start", t |-> 0, k |-> 0, y |-> get_initial_state_vector(NoState),
   term_reason |-> None, n |-> 0, trace |-> <<>>, result |-> NoResult]

NoCell == [rpm_cmd |-> 0, rudder_cmd |-> 0]

Triple(fr, cell, a) == [run |-> fr, acc |-> cell, ap |-> a]

(* runner.py 203-243 *)
RunStart(inp, tr) ==
  Triple([tr.run EXCEPT !.pc = "loop", !.t = 0, !.k = 0, !.n = tr.run.n + 1],
         [rpm_cmd |-> provider_initial(inp).rpm,
          rudder_cmd |-> provider_initial(inp).rudder_angle],
         tr.ap)

(* runner.py 250-264: the accumulators after a rate command *)
RunAccumulate(inp, cell, cmd) ==
  [rpm_cmd |-> IntegrateRate(cell.rpm_cmd, cmd.rpm, NsOf(inp.dt),
                             GoodParams.rpm_min, GoodParams.rpm_max),
   rudder_cmd |-> IntegrateRate(cell.rudder_cmd, cmd.rudder_angle, NsOf(inp.dt),
                                GoodParams.rudder_min, GoodParams.rudder_max)]

(* runner.py 283-420: the segment, the tick record, the stagnation test    *)
(* and the advance of time and tick counter                                *)
RunSegment(inp, fr, st, ctl, tn, y_new) ==
  LET rec == [t |-> fr.t, k |-> fr.k, state |-> st, control |-> ctl] IN
  IF detect_numerical_issue(st, unpack_state_vector(y_new)) # "ok" THEN
    [fr EXCEPT !.pc = "raised", !.y = y_new, !.n = fr.n + 1]
  ELSE IF BelowMinAdvance(tn - fr.t, inp.dt) THEN
    [fr EXCEPT !.pc = "finish", !.y = y_new, !.n = fr.n + 1,
               !.trace = Append(fr.trace, rec),
               !.term_reason = "solver_stagnation_no_time_advance"]
  ELSE
    [fr EXCEPT !.y = y_new, !.n = fr.n + 1, !.trace = Append(fr.trace, rec),
               !.t = tn, !.k = fr.k + 1]

(* runner.py 246-289: the control of the iteration and its segment *)
RunControlled(inp, fr, st, cell, a, tn) ==
  LET ctl == ControlInput(cell.rpm_cmd, cell.rudder_cmd, "abs") IN
  IF check_bounds_control(ctl, GoodParams) # "ok"
  THEN Triple([fr EXCEPT !.pc = "raised", !.n = fr.n + 1], cell, a)
  ELSE Triple(RunSegment(inp, fr, st, ctl, tn,
                         IF ZeroLength(fr.t, tn) THEN fr.y ELSE Solve(fr.y, ctl, tn - fr.t)),
              cell, a)

(* runner.py 244-420: one iteration of the loop *)
RunLoop(inp, tr, upd) ==
  IF ~LoopCond(tr.run.t, inp.t_end)
  THEN Triple([tr.run EXCEPT !.pc = "finish", !.n = tr.run.n + 1], tr.acc, tr.ap)
  ELSE RunControlled(inp, tr.run, unpack_state_vector(tr.run.y),
                     RunAccumulate(inp, tr.acc, provider_compute(upd)), upd.ap,
                     PyMin(tr.run.t + inp.dt, inp.t_end))

(* runner.py 422-459 *)
RunFinish(inp, tr) ==
  Triple([tr.run EXCEPT !.pc = "done", !.n = tr.run.n + 1,
                        !.result = [status |-> Status(tr.run.t, tr.run.term_reason, inp),
                                    reason |-> tr.run.term_reason,
                                    end_time |-> tr.run.t, ticks |-> tr.run.k]],
         tr.acc, tr.ap)

(* The next step of a run, whatever its position *)
RunIteration(inp, tr) ==
  IF tr.run.pc = "start" THEN RunStart(inp, tr)
  ELSE IF tr.run.pc = "loop" THEN
    RunLoop(inp, tr, autopilot_update(tr.ap, NsOf(tr.run.t), unpack_state_vector(tr.run.y),
                                      inp.heading_rad, inp.speed_ms))
  ELSE IF tr.run.pc = "finish" THEN RunFinish(inp, tr)
  ELSE tr

(* The run executed alone, after n steps *)
RECURSIVE SoloAfter(_, _)
SoloAfter(inp, n) ==
  IF n = 0 THEN Triple(FreshFrame, NoCell, FreshAutopilot)
  ELSE RunIteration(inp, SoloAfter(inp, n - 1))

DuoIdle == [inp |-> <<>>, run |-> <<>>, acc |-> <<>>, ap |-> <<>>]

RunInputs ==
  [initial_rpm : {0, 5}, heading_rad : {0, 1}, speed_ms : {0, 2},
   dt : {2, 4}, t_end : {2 * (DuoTEnd - 1), 2 * DuoTEnd}, autopilot : Runs]

DuoInit ==
  /\ duo \in [inp : [Runs -> RunInputs], run : {[i \in Runs |-> FreshFrame]},
              acc : {[i \in Runs |-> NoCell]}, ap : {[i \in Runs |-> FreshAutopilot]}]
  /\ duo.inp[1].autopilot # duo.inp[2].autopilot

(* What run i sees of the two runs, and the two runs after run i stepped *)
View(d, i) ==
  Triple(d.run[i], d.acc[AccumulatorOf(i)], d.ap[d.inp[i].autopilot])

Store(d, i, tr) ==
  [d EXCEPT !.run[i] = tr.run, !.acc[AccumulatorOf(i)] = tr.acc,
            !.ap[d.inp[i].autopilot] = tr.ap]

DuoStart ==
  /\ \E i \in Runs :
       /\ duo.run[i].pc = "start"
       /\ duo' = Store(duo, i, RunIteration(duo.inp[i], View(duo, i)))
  /\ UNCHANGED outside_duo

DuoIterate ==
  /\ \E i \in Runs :
       /\ duo.run[i].pc = "loop"
       /\ duo' = Store(duo, i, RunIteration(duo.inp[i], View(duo, i)))
  /\ UNCHANGED outside_duo

DuoFinish ==
  /\ \E i \in Runs :
       /\ duo.run[i].pc = "finish"
       /\ duo' = Store(duo, i, RunIteration(duo.inp[i], View(duo, i)))
  /\ UNCHANGED outside_duo

DuoNext ==
  \/ DuoStart
  \/ DuoIterate
  \/ DuoFinish

---------------------------------------------------------------------------
(* The systems checked: a run of the simulation with the autopilot left as *)
(* it was built (Spec), the autopilot alone (SpecPID), single calls of the *)
(* library's functions (SpecFn), the end-to-end scenario (SpecScenario)    *)
(* and two runs side by side (SpecDuo).  Each leaves the others idle.      *)
AutopilotIdle ==
  /\ heading = PIDConfig(1, 1, 1, -2, 2)
  /\ speed = PIDConfig(1, 1, 0, -12, 12)
  /\ AutopilotFresh

RunnerIdle ==
  /\ RunnerInit
  /\ config = [t0 |-> 0, t_end |-> 1, dt |-> 1, output_decimation |-> 1,
               stream_decimation |-> 1, termination_bounds |-> <<>>]
  /\ vessel_params = GoodParams
  /\ initial_state = NoState
  /\ provider_current = [raises |-> TRUE, value |-> ControlInput(0, 0, None)]
  /\ ~writer /\ ~summary_writer

vars == <<runner_vars, pid_vars, fn_vars, scenario_vars, duo_vars>>
Init == RunnerInit /\ AutopilotIdle /\ FnIdle /\ scenario = ScenarioIdle /\ duo = DuoIdle
Next == RunnerNext
Spec == Init /\ [][Next]_vars

(* run is sequential code: while it has not returned or raised, its next   *)
(* step is taken (every provider call and every solver call returns).      *)
(* Both writers are attached: they add the write calls to the iteration    *)
(* and change nothing in the loop's control flow.                          *)
InitLive == Init /\ writer /\ summary_writer
SpecLive == InitLive /\ [][Next]_vars /\ WF_vars(Next)

InitPID == RunnerIdle /\ PidInit /\ FnIdle /\ scenario = ScenarioIdle /\ duo = DuoIdle
NextPID == PidNext
SpecPID == InitPID /\ [][NextPID]_vars

InitFn == RunnerIdle /\ AutopilotIdle /\ FnIdle /\ scenario = ScenarioIdle /\ duo = DuoIdle
NextFn == FnNext
SpecFn == InitFn /\ [][NextFn]_vars

InitScenario == RunnerIdle /\ AutopilotIdle /\ FnIdle /\ scenario = ScenarioIdle /\ duo = DuoIdle
NextScenario == ScenarioNext
SpecScenario == InitScenario /\ [][NextScenario]_vars

InitDuo == RunnerIdle /\ AutopilotIdle /\ FnIdle /\ scenario = ScenarioIdle /\ DuoInit
NextDuo == DuoNext
SpecDuo == InitDuo /\ [][NextDuo]_vars

---------------------------------------------------------------------------
(* Properties of SimulationRunner.run *)

SolverReasons == {"solver_failed: message", "solver_no_output", "solver_stagnation_internal"}
StagnationReasons == {"solver_stagnation_internal", "solver_stagnation_no_time_advance"}
BoundOrder == <<"x_min", "x_max", "y_min", "y_max">>
BoundReason(b) ==
  CASE b = "x_min" -> "x below bound" [] b = "x_max" -> "x above bound"
    [] b = "y_min" -> "y below bound" [] b = "y_max" -> "y above bound"
BoundReasons == {BoundReason(BoundOrder[i]) : i \in 1..4}

(* the position vec lies outside the bound named b of the configuration *)
Violates(b, vec) ==
  /\ b \in DOMAIN config.termination_bounds
  /\ CASE b = "x_min" -> vec[1] < config.termination_bounds[b]
       [] b = "x_max" -> vec[1] > config.termination_bounds[b]
       [] b = "y_min" -> vec[2] < config.termination_bounds[b]
       [] b = "y_max" -> vec[2] > config.termination_bounds[b]

CeilDiv(a, b) == (a + b - 1) \div b
MinInt(a, b) == IF a < b THEN a ELSE b
Ticks(w) == SelectSeq(w, LAMBDA r : r.kind = "tick")
Summaries(w) == SelectSeq(w, LAMBDA r : r.kind = "summary")
InIteration == pc \in {"env", "solving", "accept"}
MidRun == hist.n >= 1

(* C1: a run of a valid configuration with t0 < t_end in which no solver   *)
(* call fails, no numerical issue is detected and no bound is violated     *)
(* ends with status 'completed', no reason, end_time = t_end and           *)
(* ticks = ceil((t_end - t0)/dt).  Stated for the plainest horizons: a     *)
(* whole number of steps, each of at least min_advance.                    *)
C1_CompletesAtTEnd ==
  (/\ pc = "done"
   /\ config.t0 < config.t_end
   /\ ~BelowMinAdvance(config.dt, config.dt)
   /\ (config.t_end - config.t0) % config.dt = 0
   /\ term_reason \notin SolverReasons \cup BoundReasons)
  => result = [status |-> "completed", reason |-> None, end_time |-> config.t_end,
               ticks |-> CeilDiv(config.t_end - config.t0, config.dt)]

(* C2 as claimed: when a bound is configured, the run terminates with that *)
(* bound's own reason at the end of the first accepted step whose          *)
(* resulting position violates it, with status 'terminated', end_time the  *)
(* end of that step, and no further step.                                  *)
C2_OwnReasonOfEachBound ==
  \A i \in 1..4 :
    /\ (k >= 1 /\ pc \in {"loop", "env", "solving", "accept"}) => ~Violates(BoundOrder[i], y)
    /\ (pc \in {"finish", "done"} /\ term_reason \in BoundReasons /\ Violates(BoundOrder[i], y))
         => term_reason = BoundReason(BoundOrder[i])

(* C2 amended: the run terminates at the end of the first accepted step    *)
(* whose resulting position violates a configured bound, with the reason   *)
(* of the first violated bound in the order x_min, x_max, y_min, y_max;    *)
(* status is 'terminated', end_time is that step's end time, and no        *)
(* further step is integrated.                                             *)
C2_FirstViolatedBoundReason ==
  /\ \A i \in 1..4 :
       (k >= 1 /\ pc \in {"loop", "env", "solving", "accept"}) => ~Violates(BoundOrder[i], y)
  /\ (pc \in {"finish", "done"} /\ term_reason \in BoundReasons)
       => \E i \in 1..4 :
            /\ Violates(BoundOrder[i], y)
            /\ \A j \in 1..(i - 1) : ~Violates(BoundOrder[j], y)
            /\ term_reason = BoundReason(BoundOrder[i])
            /\ k >= 1
            /\ t = MinInt(config.t0 + k * config.dt, config.t_end)
  /\ (pc = "done" /\ term_reason \in BoundReasons)
       => result = [status |-> "terminated", reason |-> term_reason, end_time |-> t, ticks |-> k]

C2_Witness ==
  /\ pc = "done"
  /\ result.reason = "y above bound"
  /\ result.ticks = 2
  /\ "x_max" \in DOMAIN config.termination_bounds

(* C3: a NumericalInstability condition arising mid-run ends the run with  *)
(* status 'terminated'.                                                    *)
C3_InstabilityEndsTerminated ==
  (pc = "raised" /\ exc = "NumericalInstability" /\ MidRun) => result.status = "terminated"

(* C4: a failed solver call ends the run with status 'terminated' and a    *)
(* reason beginning 'solver_failed'; the state vector and the tick counter *)
(* stay those from before the failed step and no tick record is written    *)
(* for it.                                                                 *)
C4_SolverFailurePreservesState ==
  /\ []((pc = "done" /\ term_reason = "solver_failed: message")
          => result = [status |-> "terminated", reason |-> "solver_failed: message",
                       end_time |-> t, ticks |-> k])
  /\ [][(term_reason' = "solver_failed: message")
          => (y' = y /\ k' = k /\ Ticks(written') = Ticks(written))]_vars

C4_Witness ==
  /\ pc = "done"
  /\ result.reason = "solver_failed: message"
  /\ result.ticks >= 1
  /\ result.end_time >= config.t_end
  /\ Len(Ticks(written)) >= 1

(* C5: with a summary writer, write_summary is invoked exactly once, at    *)
(* run end and after the last write_tick, however the run ends             *)
(* (completion, bounds, solver failure or stagnation, numerical            *)
(* instability).                                                           *)
C5_SummaryExactlyOnce ==
  (/\ summary_writer
   /\ pc = "done" \/ (pc = "raised" /\ exc = "NumericalInstability" /\ MidRun))
  => /\ Len(Summaries(written)) = 1
     /\ written[Len(written)].kind = "summary"

(* C6: the control consumed by the force modules in an iteration lies      *)
(* within the actuator limits: a rate command is integrated and clamped    *)
(* into them, and an absolute command outside them is rejected with        *)
(* NumericalInstability before any force module is evaluated.              *)
WithinLimits(c) ==
  /\ c.rpm # NaN /\ c.rudder_angle # NaN
  /\ vessel_params.rpm_min <= c.rpm /\ c.rpm <= vessel_params.rpm_max
  /\ vessel_params.rudder_min <= c.rudder_angle /\ c.rudder_angle <= vessel_params.rudder_max

C6_ConsumedControlWithinLimits ==
  /\ \A c \in force_calls : WithinLimits(c)
  /\ \A e \in fun_evals : WithinLimits(e[1])
  /\ InIteration => WithinLimits(control)
  /\ (InIteration /\ up.notes = "rate") => control = ControlInput(rpm_cmd, rudder_cmd, "abs")
  /\ (InIteration /\ up.notes # "rate") => control = up
  /\ (pc = "raised" /\ MidRun /\ up.notes # "rate" /\ ~WithinLimits(up)) => force_calls = {}

C6_Witness ==
  /\ pc = "solving"
  /\ n_evals >= 1
  /\ up = ControlInput(1, 1, "rate")
  /\ control.rpm = vessel_params.rpm_max
  /\ control.rudder_angle = vessel_params.rudder_min
  /\ control \in force_calls

(* C7 as claimed: with a provider returning a constant positive rudder     *)
(* rate c tagged 'rate', the absolute rudder command used in step n equals *)
(* min(rudder_max, rudder_0 + n*c*dt); symmetrically for RPM and for the   *)
(* lower limits.  Steps are counted from 1.                                *)
ConstantRate == InIteration /\ hist.same /\ hist.first.notes = "rate"
RampUp(x0, c, hi) == MinInt(hi, x0 + hist.n * c * config.dt)
RampDown(x0, c, lo) == IF lo > x0 + hist.n * c * config.dt
                       THEN lo ELSE x0 + hist.n * c * config.dt

C7_LinearRampThenClamp ==
  LET c == hist.first IN
  /\ (ConstantRate /\ c.rudder_angle # NaN /\ c.rudder_angle > 0)
       => control.rudder_angle = RampUp(Current0.rudder_angle, c.rudder_angle, vessel_params.rudder_max)
  /\ (ConstantRate /\ c.rpm # NaN /\ c.rpm > 0)
       => control.rpm = RampUp(Current0.rpm, c.rpm, vessel_params.rpm_max)
  /\ (ConstantRate /\ c.rudder_angle # NaN /\ c.rudder_angle < 0)
       => control.rudder_angle = RampDown(Current0.rudder_angle, c.rudder_angle, vessel_params.rudder_min)
  /\ (ConstantRate /\ c.rpm # NaN /\ c.rpm < 0)
       => control.rpm = RampDown(Current0.rpm, c.rpm, vessel_params.rpm_min)

(* C7 amended: with a provider returning a constant positive rudder rate c *)
(* tagged 'rate' and an initial command rudder_0 >= rudder_min, the        *)
(* absolute rudder command used in step n equals                           *)
(* min(rudder_max, rudder_0 + n*c*dt); symmetrically for RPM, and for a    *)
(* negative rate with an initial command not above the upper limit.        *)
C7_LinearRampThenClampFromWithinLimits ==
  LET c == hist.first IN
  /\ (ConstantRate /\ c.rudder_angle # NaN /\ c.rudder_angle > 0
        /\ vessel_params.rudder_min <= Current0.rudder_angle)
       => control.rudder_angle = RampUp(Current0.rudder_angle, c.rudder_angle, vessel_params.rudder_max)
  /\ (ConstantRate /\ c.rpm # NaN /\ c.rpm > 0 /\ vessel_params.rpm_min <= Current0.rpm)
       => control.rpm = RampUp(Current0.rpm, c.rpm, vessel_params.rpm_max)
  /\ (ConstantRate /\ c.rudder_angle # NaN /\ c.rudder_angle < 0
        /\ Current0.rudder_angle <= vessel_params.rudder_max)
       => control.rudder_angle = RampDown(Current0.rudder_angle, c.rudder_angle, vessel_params.rudder_min)
  /\ (ConstantRate /\ c.rpm # NaN /\ c.rpm < 0 /\ Current0.rpm <= vessel_params.rpm_max)
       => control.rpm = RampDown(Current0.rpm, c.rpm, vessel_params.rpm_min)

C7_Witness ==
  /\ ConstantRate
  /\ hist.n >= 2
  /\ hist.first = ControlInput(1, 1, "rate")
  /\ vessel_params.rudder_min <= Current0.rudder_angle
  /\ Current0.rudder_angle + (hist.n - 1) * config.dt >= vessel_params.rudder_max
  /\ control.rudder_angle = vessel_params.rudder_max

(* C9: in each loop iteration control_provider.compute and                 *)
(* env_provider.sample are each called exactly once, at loop time t with   *)
(* the state accepted at the end of the previous step, before the solver   *)
(* is invoked; every derivative evaluation the solver makes inside the     *)
(* segment uses exactly those control and environment values.              *)
C9_FrozenInputs ==
  LET at == <<[t |-> t, state |-> unpack_state_vector(y)]>> IN
  /\ InIteration => compute_calls = at
  /\ pc = "env" => sample_calls = <<>>
  /\ pc \in {"solving", "accept"} => sample_calls = at
  /\ fun_evals # {} => pc = "solving" /\ compute_calls = at /\ sample_calls = at
  /\ \A e \in fun_evals : e = <<control, env>>
  /\ InIteration => (IF up.notes = "rate"
                     THEN control = ControlInput(rpm_cmd, rudder_cmd, "abs")
                     ELSE control = up)

C9_Witness ==
  /\ pc = "solving"
  /\ k >= 1
  /\ y # get_initial_state_vector(initial_state)
  /\ env = EnvironmentSample(1)
  /\ fun_evals = {<<control, env>>}

(* C10: if in a step the solver advances time by less than                 *)
(* min_advance = max(1e-9, 1e-6*dt), the run terminates with status        *)
(* 'terminated' and a reason beginning 'solver_stagnation', and the tick   *)
(* counter and the loop time are not advanced.                             *)
C10_StallEndsInStagnation ==
  (stall.seen /\ pc \in {"done", "raised"})
  => /\ pc = "done"
     /\ result.status = "terminated"
     /\ result.reason \in StagnationReasons
     /\ result.ticks = stall.k
     /\ result.end_time = stall.t

---------------------------------------------------------------------------
(* Properties of RatePIDAutopilot *)

(* C8: whenever an axis's unsaturated PID output differs from its          *)
(* saturated output, the integral accumulator returned by that update      *)
(* equals the accumulator before the update; hence after N consecutive     *)
(* saturated updates the accumulator equals its pre-saturation value, for  *)
(* every N.                                                                *)
C8_AntiWindup ==
  /\ (obs_heading.valid /\ ~RatEq(obs_heading.u, obs_heading.u_sat))
       => e_int_heading = obs_heading.e_int
  /\ (obs_speed.valid /\ ~RatEq(obs_speed.u, obs_speed.u_sat))
       => e_int_speed = obs_speed.e_int
  /\ sat_heading.n >= 1 => e_int_heading = sat_heading.e0
  /\ sat_speed.n >= 1 => e_int_speed = sat_speed.e0

C8_Witness ==
  /\ sat_speed.n >= 2
  /\ sat_speed.e0 # 0
  /\ last_speed_err # Some(0)
  /\ speed.u_min <= speed.u_max
  /\ e_int_speed = sat_speed.e0
  /\ sat_heading.n >= 1
  /\ sat_heading.e0 # 0

(* C11: in the run result, and in the summary handed to the summary        *)
(* writer, a reason is present (non-null) if and only if the status is     *)
(* 'terminated'; the status is always 'completed' or 'terminated'.         *)
C11_ReasonIffTerminated ==
  pc = "done"
  => /\ result.status \in {"completed", "terminated"}
     /\ (result.reason # None) <=> (result.status = "terminated")
     /\ \A i \in 1..Len(written) :
          written[i].kind = "summary"
          => /\ written[i].status \in {"completed", "terminated"}
             /\ (written[i].reason # None) <=> (written[i].status = "terminated")

(* C12: with a writer attached, a loop iteration that reaches the logging  *)
(* point writes a tick record exactly when its tick counter k satisfies    *)
(* k mod N = 0, N = output_decimation; so records are written for          *)
(* k = 0, N, 2N, ... and for no other k.                                   *)
C12_DecimatedTicks ==
  /\ [](\A i \in 1..Len(Ticks(written)) :
          Ticks(written)[i].k = (i - 1) * config.output_decimation)
  /\ []((writer /\ pc = "loop")
          => Len(Ticks(written)) = CeilDiv(k, config.output_decimation))
  /\ [](~writer => Ticks(written) = <<>>)
  /\ [][(pc = "accept" /\ pc' # "raised")
          => Ticks(written') = IF writer /\ k % config.output_decimation = 0
                               THEN Append(Ticks(written),
                                           [kind |-> "tick", t |-> t, k |-> k,
                                            x |-> state.x, y |-> state.y])
                               ELSE Ticks(written)]_vars

C12_Witness ==
  /\ writer
  /\ config.output_decimation = 2
  /\ k = 2
  /\ pc = "finish"
  /\ Len(Ticks(written)) = 2
  /\ written[1].k = 0
  /\ written[2].k = 2

(* C13: when the provider's command is not tagged 'rate', the control used *)
(* for the step is exactly the provider's command, and the rpm_cmd and     *)
(* rudder_cmd accumulators are left unchanged by that iteration.           *)
C13_AbsolutePassThrough ==
  /\ []((InIteration /\ up.notes # "rate")
          => /\ control = up
             /\ \A c \in force_calls : c = up
             /\ \A e \in fun_evals : e[1] = up)
  /\ [][(pc = "loop" /\ up'.notes # "rate")
          => (control' = up' /\ rpm_cmd' = rpm_cmd /\ rudder_cmd' = rudder_cmd)]_vars
  /\ [][InIteration
          => (rpm_cmd' = rpm_cmd /\ rudder_cmd' = rudder_cmd
              /\ (pc' \in {"env", "solving", "accept"} => control' = control /\ up' = up))]_vars

C13_Witness ==
  /\ pc = "solving"
  /\ n_evals >= 1
  /\ hist.n >= 2
  /\ up = ControlInput(1, 1, "abs")
  /\ control = up
  /\ rpm_cmd = vessel_params.rpm_max
  /\ rudder_cmd = vessel_params.rudder_min

(* C14: the first update after construction or after reset() has zero      *)
(* derivative and zero integral contribution: each axis outputs            *)
(* clamp(kp*err, u_min, u_max) and its integral accumulator stays 0;       *)
(* reset() after any sequence of updates yields the state of a freshly     *)
(* constructed autopilot, hence the same subsequent outputs.               *)
ClampInt(x, lo, hi) ==
  LET m == IF x < hi THEN x ELSE hi IN IF m > lo THEN m ELSE lo

FirstOutputIsProportional(obs, cfg, last_err, e_int) ==
  (obs.valid /\ obs.dt = 0)
  => /\ RatEq(obs.u_sat, Rat(ClampInt(cfg.kp * last_err[1], cfg.u_min, cfg.u_max), 1))
     /\ e_int = 0

C14_FirstUpdateAndReset ==
  /\ FirstOutputIsProportional(obs_heading, heading, last_heading_err, e_int_heading)
  /\ FirstOutputIsProportional(obs_speed, speed, last_speed_err, e_int_speed)
  /\ last_t = NoneF
       => /\ e_int_heading = 0 /\ e_int_speed = 0
          /\ last_heading_err = NoneF /\ last_speed_err = NoneF
  /\ (obs_heading.valid /\ obs_heading.dt = 0)
       => obs_heading.u_sat
            = pid_step(last_t[1], last_heading_err[1], heading, NoneF, 0, NoneF).u_sat
  /\ (obs_speed.valid /\ obs_speed.dt = 0)
       => obs_speed.u_sat
            = pid_step(last_t[1], last_speed_err[1], speed, NoneF, 0, NoneF).u_sat

C14_Witness ==
  /\ n_updates >= 3
  /\ obs_speed.valid /\ obs_speed.dt = 0
  /\ speed = PIDConfig(3, 1, 0, -12, 12)
  /\ last_speed_err = Some(5)
  /\ obs_speed.u_sat = Rat(12, 1)
  /\ last_heading_err = Some(1)
  /\ obs_heading.u_sat = Rat(1, 1)

(* C15: for every target heading and current heading, the heading error    *)
(* used by the PID equals (target - heading) reduced modulo 2*pi into the  *)
(* half-open interval (-pi, pi]; in particular a raw difference of exactly *)
(* pi gives +pi.                                                           *)
WrapHalfOpen(d) == CHOOSE e \in (1 - Pi)..Pi : (e - d) % (2 * Pi) = 0

C15_HeadingErrorWrapped ==
  obs_heading.valid
  => last_heading_err
       = Some(WrapHalfOpen(last_call.target_heading_rad - last_call.psi))

(* C16: a SimulationConfig with non-positive dt or non-positive horizon    *)
(* (t_end - t0 <= 0) makes run raise ConfigError before the control        *)
(* provider or the environment provider is queried and before any tick     *)
(* record or summary is written.                                           *)
C16_BadConfigRejectedFirst ==
  (pc # "start" /\ (config.dt <= 0 \/ config.t_end - config.t0 <= 0))
  => /\ pc = "raised"
     /\ exc = "ConfigError"
     /\ hist.n = 0
     /\ compute_calls = <<>> /\ sample_calls = <<>>
     /\ written = <<>>

---------------------------------------------------------------------------
(* Properties of the validation and vector-mapping functions *)

(* C17: validate_params raises ConfigError exactly when mass m is          *)
(* non-positive or non-finite, yaw inertia Iz is non-positive or           *)
(* non-finite, rpm_min >= rpm_max, or rudder_min >= rudder_max; for every  *)
(* other VesselParams it returns without error.  The comparisons are those *)
(* of floats: one with a NaN operand is false.                             *)
FloatGe(a, b) == a # NaN /\ b # NaN /\ a >= b

ParamsInvalid(p) ==
  \/ p.m = NaN \/ p.m <= 0
  \/ p.Iz = NaN \/ p.Iz <= 0
  \/ FloatGe(p.rpm_min, p.rpm_max)
  \/ FloatGe(p.rudder_min, p.rudder_max)

C17_ValidateParamsExact ==
  fn = "validate_params"
  => /\ ret \in {"ok", "ConfigError"}
     /\ (ret = "ConfigError") <=> ParamsInvalid(arg)

C17_Witness ==
  /\ fn = "validate_params"
  /\ ret = "ConfigError"
  /\ arg.m = 1 /\ arg.Iz = 1
  /\ arg.rpm_min = 0 /\ arg.rpm_max = 1
  /\ arg.rudder_min = 1 /\ arg.rudder_max = 1

(* C18: the result of force aggregation has totals X, Y, N each equal to   *)
(* the sum, taken in the fixed module order hull, propulsion, rudder,      *)
(* wind, current, of the corresponding entries of its 'components'         *)
(* breakdown, and the breakdown has one entry for every configured module. *)
RECURSIVE SumInOrder(_, _, _)
SumInOrder(i, comps, key) ==
  IF i = 0 THEN 0
  ELSE IF ModuleOrder[i] \in DOMAIN comps
       THEN SumInOrder(i - 1, comps, key) + comps[ModuleOrder[i]][key]
       ELSE SumInOrder(i - 1, comps, key)

C18_TotalsEqualBreakdown ==
  fn = "_sum_forces"
  => /\ DOMAIN ret.components = {n \in ModuleNames : arg.mods[n]}
     /\ \A key \in {"X", "Y", "N"} :
          /\ ret[key] = SumInOrder(Len(ModuleOrder), ret.components, key)
          /\ \A n \in DOMAIN ret.components :
               ret.components[n][key] = Get(arg.outs[n], key)

C18_Witness ==
  /\ fn = "_sum_forces"
  /\ DOMAIN ret.components = ModuleNames
  /\ ret.components["hull"] = [X |-> 2, Y |-> 0, N |-> 0]
  /\ ret.components["current"] = [X |-> 1, Y |-> 2, N |-> -1]
  /\ ret.X = 8

(* C19: every force aggregation validates the control bounds first,        *)
(* including the one inside the derivative computation: when rpm or        *)
(* rudder_angle is non-finite or outside the actuator limits, both         *)
(* MMG3DOFModel.forces and MMG3DOFModel.f fail with NumericalInstability   *)
(* without invoking any force module.                                      *)
C19_AggregationValidatesFirst ==
  (fn \in {"forces", "f"} /\ ~WithinLimits(arg))
  => /\ ret.exc = "NumericalInstability"
     /\ ret.consumed = {}

(* C20: vector pack and unpack are exact inverses.  For every finite       *)
(* six-element vector y, get_initial_state_vector(unpack_state_vector(y))  *)
(* = y, and for every finite VesselState s,                                *)
(* unpack_state_vector(get_initial_state_vector(s)) = s.                   *)
C20_PackUnpackInverse ==
  fn \in {"unpack_pack", "pack_unpack"} => ret = arg

AtRest(a) ==
  /\ a.control.rpm = QZero /\ a.control.rudder_angle = QZero
  /\ a.env.wind_speed = QZero /\ a.env.current_speed = QZero
  /\ a.state.u = QZero /\ a.state.v = QZero /\ a.state.r = QZero

(* C21: with zero commanded RPM, zero rudder angle, zero wind and current  *)
(* speed and zero velocities, MMG3DOFModel.f returns all six derivatives   *)
(* equal to zero for every heading and position; the kinematic derivatives *)
(* dx, dy, dpsi are non-zero only if some velocity component is non-zero.  *)
C21_RestHasZeroDerivatives ==
  fn = "mmg_f" =>
    /\ AtRest(arg) =>
         /\ ret.exc = None
         /\ ret.dx = QZero /\ ret.dy = QZero /\ ret.dpsi = QZero
         /\ ret.du = QZero /\ ret.dv = QZero /\ ret.dr = QZero
    /\ (ret.exc = None /\ (ret.dx # QZero \/ ret.dy # QZero \/ ret.dpsi # QZero))
         => (arg.state.u # QZero \/ arg.state.v # QZero \/ arg.state.r # QZero)

(* f was called at rest at a non-zero heading and position, with a         *)
(* non-zero thrust coefficient T0, and returned six zeros                  *)
C21_Witness ==
  /\ fn = "mmg_f" /\ AtRest(arg)
  /\ arg.state.psi = 1 /\ arg.state.x = QOne
  /\ "T0" \in DOMAIN arg.params.prop_params
  /\ ret = Derivatives(None, QZero, QZero, QZero, QZero, QZero, QZero)


NonZeroForce(rec) == rec.X # QZero \/ rec.Y # QZero \/ rec.N # QZero

SurgeNonDecreasing(w) ==
  \A i \in 1..(Len(w) - 1) : QLe(w[i].u, w[i + 1].u)

XIncreasingOnceForced(w) ==
  \A i \in 1..Len(w) :
    NonZeroForce(w[i]) => \A j \in i..(Len(w) - 1) : QLt(w[j].x, w[j + 1].x)

---------------------------------------------------------------------------
(* C23: Two runs with disjoint provider and autopilot instances do not     *)
(* influence each other: under every interleaving of their loop            *)
(* iterations, the frame of each run (its time, tick counter, state, the   *)
(* sequence of tick records with the control and the state of each         *)
(* iteration, and its result) is the one the run has after the same        *)
(* number of steps when it is executed alone.                              *)
C23_RunsIndependent ==
  duo # DuoIdle => \A i \in Runs : duo.run[i] = SoloAfter(duo.inp[i], duo.run[i].n).run

(* Both runs integrated rate commands in interleaved iterations, with      *)
(* different commands, and both returned.                                  *)
C23_Witness ==
  /\ duo # DuoIdle
  /\ \A i \in Runs : duo.run[i].pc = "done" /\ Len(duo.run[i].trace) >= 2
  /\ duo.run[1].trace[2].control # duo.run[2].trace[2].control
  /\ \A i \in Runs : duo.run[i].trace[2].control.rpm # duo.run[i].trace[1].control.rpm
  /\ duo.acc[1] # duo.acc[2]

(* C24: every force module's compute (hull, propulsion, rudder, wind,      *)
(* current, bow thruster, stern thruster) returns a force triplet without  *)
(* raising, for every finite state, every ControlInput, every              *)
(* EnvironmentSample and every VesselParams that passes validate_params.   *)
C24_ComputeNeverRaises ==
  (fn = "compute" /\ validate_ship(arg.params) = "ok") => ret.exc = None

---------------------------------------------------------------------------
(* C25: each accepted step advances the loop time from t to                *)
(* min(t + dt, t_end) and increments the tick counter by exactly one; once *)
(* the loop is entered t0 <= t <= t_end in every state and t never         *)
(* decreases; and when no solver failure occurred the reported end_time    *)
(* equals min(t0 + ticks*dt, t_end).                                       *)
StepAdvances == (k' # k) => (k' = k + 1 /\ t' = PyMin(t + config.dt, config.t_end))
TimeNeverDecreases == (pc # "start") => t' >= t
TimeWithinHorizon ==
  (pc \notin {"start", "raised"}) => (config.t0 <= t /\ t <= config.t_end)
EndTimeFromTicks ==
  (pc = "done" /\ term_reason # "solver_failed: message")
  => result.end_time = PyMin(config.t0 + result.ticks * config.dt, config.t_end)

C25_TimeAdvancesByStep ==
  /\ [](TimeWithinHorizon /\ EndTimeFromTicks)
  /\ [][StepAdvances /\ TimeNeverDecreases]_vars

(* C26: every run of a valid configuration (dt > 0, t0 < t_end) returns a  *)
(* result or raises, and its main loop starts at most                      *)
(* ceil((t_end - t0)/dt) + 1 iterations; hist.n counts the calls of        *)
(* control_provider.compute, one at the head of each iteration.            *)
IterationsBounded ==
  (pc # "start" /\ validate_config(config) = "ok" /\ config.t0 < config.t_end)
  => hist.n <= CeilDiv(config.t_end - config.t0, config.dt) + 1

C26_RunTerminates ==
  /\ []IterationsBounded
  /\ <>(pc \in {"done", "raised"})

(* A run of at least two steps that used every iteration of the bound *)
C26_Witness ==
  /\ pc = "done"
  /\ config.t0 < config.t_end
  /\ k >= 2
  /\ hist.n = CeilDiv(config.t_end - config.t0, config.dt) + 1

(* C27 *)
InitiallyOutside ==
  \E i \in 1..4 : Violates(BoundOrder[i], get_initial_state_vector(initial_state))

(* the reason of the first bound, in the order of the tests, that vec      *)
(* violates                                                                *)
FirstViolatedReason(vec) ==
  BoundReason(BoundOrder[CHOOSE i \in 1..4 :
                           /\ Violates(BoundOrder[i], vec)
                           /\ \A j \in 1..(i - 1) : ~Violates(BoundOrder[j], vec)])

(* C27 as claimed: a run whose initial position already violates a bound   *)
(* counts exactly one step (ticks = 1, one tick record written) and        *)
(* terminates with a bound's reason.  Stated for positive horizons.        *)
C27_InitialViolationCountsOneStep ==
  (pc = "done" /\ InitiallyOutside /\ config.t0 < config.t_end)
  => /\ result.ticks = 1
     /\ result.reason \in BoundReasons
     /\ writer => Len(Ticks(written)) = 1

(* C27, amended: the bounds are never tested on the initial state, only on *)
(* the state an accepted step produced.  In a run whose initial position   *)
(* violates a bound no bound reason is set before one step is counted; if  *)
(* the first step is accepted and the state it produced violates a bound,  *)
(* the run terminates there with the reason of the first bound that state  *)
(* violates, with ticks = 1 and the one tick record of t0.  If the first   *)
(* step is not accepted the run ends with ticks = 0 for another reason.    *)
C27_BoundsOnlyAfterAcceptedStep ==
  (pc # "start" /\ InitiallyOutside)
  => /\ term_reason \in BoundReasons => k >= 1
     /\ (k >= 1 /\ \E i \in 1..4 : Violates(BoundOrder[i], y))
          => /\ k = 1
             /\ pc \in {"finish", "done"}
             /\ term_reason = FirstViolatedReason(y)
     /\ (pc = "done" /\ term_reason \in BoundReasons)
          => /\ result.ticks = 1
             /\ result.status = "terminated"
             /\ writer => Ticks(written) = <<[kind |-> "tick", t |-> config.t0, k |-> 0,
                                               x |-> initial_state.x,
                                               y |-> initial_state.y]>>
     /\ (pc = "done" /\ term_reason \notin BoundReasons) => result.ticks = 0

(* The step moved x inside its bound; the run ended on the y bound after   *)
(* one counted step and one tick record.                                   *)
C27_Witness ==
  /\ pc = "done"
  /\ InitiallyOutside
  /\ writer
  /\ result.ticks = 1
  /\ result.reason = "y below bound"
  /\ Len(Ticks(written)) = 1

(* C28: each tick record carries the loop time and the pre-step state of   *)
(* its own iteration and is written only after that iteration's            *)
(* integration succeeded and its resulting state passed the numerical      *)
(* check; the timestamps of the written records are strictly increasing;   *)
(* no record is written in an iteration that ends in solver failure or     *)
(* NumericalInstability.                                                   *)
TickWrittenAfterChecks ==
  (Ticks(written') # Ticks(written))
  => /\ pc = "accept"
     /\ detect_numerical_issue(state, unpack_state_vector(y_out)) = "ok"
     /\ state = unpack_state_vector(y)
     /\ Ticks(written') = Append(Ticks(written),
                                 [kind |-> "tick", t |-> t, k |-> k,
                                  x |-> state.x, y |-> state.y])
     /\ pc' # "raised"
     /\ term_reason' \notin SolverReasons

NoTickInFailingIteration ==
  (pc' = "raised" \/ (term_reason' \in SolverReasons /\ term_reason = None))
  => Ticks(written') = Ticks(written)

TimestampsIncrease ==
  \A i \in 1..(Len(Ticks(written)) - 1) : Ticks(written)[i].t < Ticks(written)[i + 1].t

C28_TickRecordsOfAcceptedIterations ==
  /\ []TimestampsIncrease
  /\ [][TickWrittenAfterChecks /\ NoTickInFailingIteration]_vars

(* Three records, the last written by the iteration at t_end, after a step *)
(* that moved the vessel.                                                  *)
C28_Witness ==
  /\ Len(Ticks(written)) = 3
  /\ Ticks(written)[3].x # Ticks(written)[1].x
  /\ Ticks(written)[3].t > Ticks(written)[2].t
  /\ pc = "finish"

(* C29: in every loop iteration that receives a (finite) rate command the  *)
(* accumulators advance by the rate times the nominal step size dt, and    *)
(* the clamped sums are the control of the iteration, whatever the length  *)
(* of the segment integrated in that iteration; nothing else in the        *)
(* iteration changes the accumulators.                                     *)
ClampTo(v, lo, hi) == IF v > hi THEN hi ELSE IF v < lo THEN lo ELSE v

RateAdvancesByNominalDt ==
  (hist'.n = hist.n + 1 /\ up'.notes = "rate" /\ up'.rpm # NaN /\ up'.rudder_angle # NaN)
  => /\ rpm_cmd' = ClampTo(rpm_cmd + up'.rpm * config.dt,
                           vessel_params.rpm_min, vessel_params.rpm_max)
     /\ rudder_cmd' = ClampTo(rudder_cmd + up'.rudder_angle * config.dt,
                              vessel_params.rudder_min, vessel_params.rudder_max)
     /\ control' = ControlInput(rpm_cmd', rudder_cmd', "abs")

AccumulatorsKeptInIteration ==
  (hist'.n = hist.n /\ pc # "start") => (rpm_cmd' = rpm_cmd /\ rudder_cmd' = rudder_cmd)

C29_RateTimesNominalDt ==
  [][RateAdvancesByNominalDt /\ AccumulatorsKeptInIteration]_vars

(* The first iteration of a run with dt = 3 integrates a segment of length *)
(* 1 and receives the rate 1: the RPM command went from 0 to 3.            *)
C29_Witness ==
  /\ pc = "solving"
  /\ hist.n = 1
  /\ up = ControlInput(1, 1, "rate")
  /\ config.dt = 3
  /\ t_next - t = 1
  /\ Current0.rpm = 0
  /\ rpm_cmd = 3
  /\ control.rpm = 3

(* C30: ManualControlProvider.compute(t) follows the schedule as a step    *)
(* function: with the entries sorted by time it returns the command of the *)
(* first entry when t is at or before the first entry's time, of the last  *)
(* entry when t is at or after the last entry's time, otherwise of the     *)
(* entry i with t_i <= t < t_(i+1); with an empty schedule rpm = 0 and     *)
(* rudder_angle = 0.                                                       *)
HeldEntries(s, tt) ==
  IF tt <= Get(s[1], "t") THEN {s[1]}
  ELSE IF tt >= Get(s[Len(s)], "t") THEN {s[Len(s)]}
  ELSE {s[i] : i \in {j \in 1..(Len(s) - 1) :
                        Get(s[j], "t") <= tt /\ tt < Get(s[j + 1], "t")}}

C30_ManualStepSchedule ==
  fn = "manual_compute"
  => /\ ret.exc = None
     /\ arg.schedule = <<>> => (ret.rpm = 0 /\ ret.rudder_angle = 0)
     /\ arg.schedule # <<>>
          => \E e \in HeldEntries(sorted_by_t(arg.schedule), arg.t) :
               ret.rpm = Get(e, "rpm") /\ ret.rudder_angle = Get(e, "rudder_rad")

====
